---- MODULE Spec2Model ----
(***************************************************************************)
(* Model of the pm-tool integration engine of MD-Ticket: the retry         *)
(* executor, the transport client, the Redmine and the Backlog plugin      *)
(* (fetch / update), and the heading/body field mapping.                    *)
(*                                                                         *)
(* Strings that the code inspects character by character (Markdown bodies, *)
(* titles) are sequences of one-character strings.  Messages are           *)
(* translated to English.                                                  *)
(***************************************************************************)
EXTENDS Integers, Sequences, FiniteSets, TLC

VARIABLES req, pc, rt, net, ctx, out

vars == <<req, pc, rt, net, ctx, out>>

(***************************************************************************)
(* JavaScript values                                                       *)
(***************************************************************************)
\* Every scalar is a sequence of strings.  A text is the sequence of its
\* characters, so the empty string is the empty sequence; undefined, null,
\* numbers, booleans and dates are one-element sequences holding a token
\* that is no character ("N:1" is the number 1, "D1" a date).
Undefined == <<"undefined">>
Null == <<"null">>
Empty == <<>>
NaN == <<"NaN">>

Number(digit) == <<"N:" \o digit>>

\* JavaScript truthiness of a scalar.
Truthy(v) == v \notin {Undefined, Null, Empty, Number("0"), NaN, <<"false">>}

\* parseInt(s, 10) and parseFloat(s) on the option strings of the model.
ParseInt(s) ==
    IF Len(s) = 1 /\ s[1] \in {"0", "1", "2"} THEN Number(s[1]) ELSE NaN

\* String(v), as URLSearchParams.append applies it.
StringOf(v) ==
    IF \E d \in {"0", "1", "2"} : v = Number(d)
    THEN <<CHOOSE d \in {"0", "1", "2"} : v = Number(d)>>
    ELSE v

\* Objects are functions from the keys they own; a nested object's members
\* are owned under dotted keys ("status.id").  obj.k, and obj.a?.b for a
\* dotted key.
Get(obj, k) == IF k \in DOMAIN obj THEN obj[k] ELSE Undefined

\* obj after the assignment obj.k = v.
Put(obj, k, v) == (k :> v) @@ obj

\* obj without the keys in ks.
Without(obj, ks) == [k \in DOMAIN obj \ ks |-> obj[k]]

Min(a, b) == IF a <= b THEN a ELSE b
Max(a, b) == IF a >= b THEN a ELSE b

(***************************************************************************)
(* Character-level strings                                                 *)
(***************************************************************************)
NL == "\n"
CR == "\r"

\* The characters JavaScript's \s and String.prototype.trim treat as white
\* space, among the characters of the model.
WhiteSpace == {" ", NL, CR}

\* Length of the longest run of characters of S that starts at index i.
RunIn(s, i, S) ==
    CHOOSE n \in 0..(Len(s) + 1 - i) :
        /\ \A j \in i..(i + n - 1) : s[j] \in S
        /\ (i + n > Len(s) \/ s[i + n] \notin S)

\* Length of the longest run of characters outside S that starts at index i.
RunNotIn(s, i, S) ==
    CHOOSE n \in 0..(Len(s) + 1 - i) :
        /\ \A j \in i..(i + n - 1) : s[j] \notin S
        /\ (i + n > Len(s) \/ s[i + n] \in S)

RECURSIVE TrimStart(_)
TrimStart(s) ==
    IF s = <<>> THEN s
    ELSE IF Head(s) \in WhiteSpace THEN TrimStart(Tail(s)) ELSE s

RECURSIVE TrimEnd(_)
TrimEnd(s) ==
    IF s = <<>> THEN s
    ELSE IF s[Len(s)] \in WhiteSpace THEN TrimEnd(SubSeq(s, 1, Len(s) - 1)) ELSE s

\* String.prototype.trim
Trim(s) == TrimEnd(TrimStart(s))

\* '='.repeat(n)
RECURSIVE Repeat(_, _)
Repeat(c, n) == IF n <= 0 THEN <<>> ELSE <<c>> \o Repeat(c, n - 1)

NoMatch == [ok |-> FALSE, g |-> <<>>]
Match(g) == [ok |-> TRUE, g |-> g]

\* The tail "\n+(.+)$" (flag s) of both description patterns, tried at index
\* p: at least one line feed, then at least one more character up to the end
\* of the string.  The line-feed run is greedy; when it reaches the end of
\* the string it gives its last line feed back to the group.
RestAfterNewlines(s, p) ==
    LET nl == RunIn(s, p, {NL})
        q  == p + nl
    IN  IF nl >= 1 /\ q <= Len(s) THEN Match(SubSeq(s, q, Len(s)))
        ELSE IF nl >= 2 THEN Match(<<NL>>)
        ELSE NoMatch

\* body.match(/^[^\n]+\n=+\n+(.+)$/s)
SetextDescriptionMatch(body) ==
    LET l1 == RunNotIn(body, 1, {NL})
        eq == RunIn(body, l1 + 2, {"="})
    IN  IF l1 >= 1 /\ l1 + 1 <= Len(body) /\ eq >= 1
        THEN RestAfterNewlines(body, l1 + 2 + eq)
        ELSE NoMatch

\* "#\s+[^\n]+" with k white-space characters taken by \s+, followed by the
\* tail of the description pattern.
AtxDescriptionAt(body, k) ==
    LET line == RunNotIn(body, k + 2, {NL})
    IN  IF line >= 1 THEN RestAfterNewlines(body, k + 2 + line) ELSE NoMatch

\* body.match(/^#\s+[^\n]+\n+(.+)$/s): \s+ is greedy and backtracks, so the
\* match is the one with the longest white-space run that succeeds.
AtxDescriptionMatch(body) ==
    IF body = <<>> \/ body[1] # "#" THEN NoMatch
    ELSE LET w  == RunIn(body, 2, WhiteSpace)
             ks == {k \in 1..w : AtxDescriptionAt(body, k).ok}
         IN  IF ks = {} THEN NoMatch
             ELSE AtxDescriptionAt(body, CHOOSE k \in ks : \A j \in ks : j <= k)

\* extractDescriptionFromMarkdown
extractDescriptionFromMarkdown(body) ==
    IF body = <<>> THEN <<>>
    ELSE IF SetextDescriptionMatch(body).ok THEN Trim(SetextDescriptionMatch(body).g)
    ELSE IF AtxDescriptionMatch(body).ok THEN Trim(AtxDescriptionMatch(body).g)
    ELSE Trim(body)

\* body.match(/^([^\n]+)\n=+/)
SetextSubjectMatch(body) ==
    LET l1 == RunNotIn(body, 1, {NL})
    IN  IF l1 >= 1 /\ l1 + 2 <= Len(body) /\ body[l1 + 2] = "="
        THEN Match(SubSeq(body, 1, l1))
        ELSE NoMatch

\* "#\s+(.+)$" (flag m) tried with "#" at index p and k white-space
\* characters taken by \s+: the group is the rest of the line, not empty.
AtxSubjectAt(body, p, k) ==
    LET line == RunNotIn(body, p + k + 1, {NL})
    IN  IF line >= 1 THEN Match(SubSeq(body, p + k + 1, p + k + line)) ELSE NoMatch

\* The pattern tried with "#" at index p, a start of line.
AtxSubjectFrom(body, p) ==
    LET w  == RunIn(body, p + 1, WhiteSpace)
        ks == {k \in 1..w : AtxSubjectAt(body, p, k).ok}
    IN  IF ks = {} THEN NoMatch
        ELSE AtxSubjectAt(body, p, CHOOSE k \in ks : \A j \in ks : j <= k)

\* body.match(/^#\s+(.+)$/m): with flag m, ^ matches at the start of every
\* line, so the first line that matches is taken wherever it is in the body.
AtxSubjectMatch(body) ==
    LET starts == {p \in 1..Len(body) :
                      /\ body[p] = "#"
                      /\ (p = 1 \/ body[p - 1] = NL)
                      /\ AtxSubjectFrom(body, p).ok}
    IN  IF starts = {} THEN NoMatch
        ELSE AtxSubjectFrom(body, CHOOSE p \in starts : \A q \in starts : p <= q)

\* extractSubjectFromMarkdown
extractSubjectFromMarkdown(body) ==
    IF body = <<>> THEN <<>>
    ELSE IF SetextSubjectMatch(body).ok THEN Trim(SetextSubjectMatch(body).g)
    ELSE IF AtxSubjectMatch(body).ok THEN Trim(AtxSubjectMatch(body).g)
    ELSE <<>>

Untitled == <<"U", "n", "t", "i", "t", "l", "e", "d">>

MinUnderline == 25

\* The part of formatMarkdown after the front matter: the title as a setext
\* heading, an empty line, the body, a final line feed.
formatMarkdown(title, body) ==
    LET titleLine == IF title = <<>> THEN Untitled ELSE title
    IN  titleLine \o <<NL>> \o Repeat("=", Max(Len(titleLine), MinUnderline))
            \o <<NL, NL>> \o body \o <<NL>>

\* executeUpdate's treatment of the text after the front matter: line
\* endings to LF, then trim.
RECURSIVE NormalizeNewlines(_)
NormalizeNewlines(s) ==
    IF s = <<>> THEN <<>>
    ELSE IF Head(s) = CR
         THEN <<NL>> \o NormalizeNewlines(
                  IF Len(s) >= 2 /\ s[2] = NL THEN Tail(Tail(s)) ELSE Tail(s))
         ELSE <<Head(s)>> \o NormalizeNewlines(Tail(s))

bodyContent(text) == Trim(NormalizeNewlines(text))

(***************************************************************************)
(* Retry executor: retry(fn, options)                                      *)
(***************************************************************************)
DefaultMaxRetries == 3
DefaultInitialDelay == 1000
DefaultMaxDelay == 10000
DefaultBackoffMultiplier == 2

NoError ==
    [name |-> "none", code |-> "", statusCode |-> 0, message |-> <<>>,
     details |-> <<>>]

\* The local variables of one retry() call at its entry: attempt, delay and
\* lastError of the code; calls and sleeps record what the call has done
\* (invocations of fn, the delays slept); state is where the call stands.
RetryEntry(policy) ==
    [attempt |-> 0, delay |-> policy.initialDelay, lastError |-> NoError,
     calls |-> 0, sleeps |-> <<>>, state |-> "running"]

\* One iteration of the loop in which fn() returned.
RetryReturn(r) ==
    [r EXCEPT !.calls = @ + 1, !.state = "returned"]

\* The catch block for a mutated executor that stops one attempt early.
RetryCatchOffByOne(r, policy, e) ==
    IF r.attempt + 1 >= policy.maxRetries \/ ~policy.shouldRetry[e]
    THEN [r EXCEPT !.calls = @ + 1, !.lastError = e, !.state = "thrown"]
    ELSE [r EXCEPT !.calls = @ + 1, !.lastError = e,
                   !.sleeps = Append(@, r.delay),
                   !.delay = Min(r.delay * policy.backoffMultiplier, policy.maxDelay),
                   !.attempt = @ + 1]

\* The catch block for a mutated executor that never asks shouldRetry.
RetryCatchUnasked(r, policy, e) ==
    IF r.attempt = policy.maxRetries
    THEN [r EXCEPT !.calls = @ + 1, !.lastError = e, !.state = "thrown"]
    ELSE [r EXCEPT !.calls = @ + 1, !.lastError = e,
                   !.sleeps = Append(@, r.delay),
                   !.delay = Min(r.delay * policy.backoffMultiplier, policy.maxDelay),
                   !.attempt = @ + 1]

\* The catch block for a mutated executor that gives up at the first failure.
RetryCatchSurfacing(r, policy, e) ==
    [r EXCEPT !.calls = @ + 1, !.lastError = e, !.state = "thrown"]

\* One iteration of the loop in which fn() threw e: the catch block.  On
\* the last attempt the loop is left and lastError is thrown; an error that
\* shouldRetry refuses is thrown at once; otherwise the call sleeps for the
\* current delay, multiplies the delay (capped) and goes round again.
RetryCatch(r, policy, e) ==
    IF r.attempt = policy.maxRetries \/ ~policy.shouldRetry[e]
    THEN [r EXCEPT !.calls = @ + 1, !.lastError = e, !.state = "thrown"]
    ELSE [r EXCEPT !.calls = @ + 1, !.lastError = e,
                   !.sleeps = Append(@, r.delay),
                   !.delay = Min(r.delay * policy.backoffMultiplier, policy.maxDelay),
                   !.attempt = @ + 1]

(***************************************************************************)
(* The retry executor on its own, for any policy and any operation         *)
(***************************************************************************)
MaxPolicyRetries == 3

\* The errors an operation under test may raise.
TestErrors ==
    {[name |-> "Error", code |-> "", statusCode |-> 0, message |-> <<m>>,
     details |-> <<>>] :
        m \in {"E1", "E2"}}

\* <<initialDelay, maxDelay>>; the second pair starts above its cap.
PolicyDelays == {<<1, 5>>, <<5, 3>>, <<DefaultInitialDelay, DefaultMaxDelay>>}

Multipliers == {1, DefaultBackoffMultiplier, 3}

Policies ==
    {[maxRetries |-> m, initialDelay |-> d[1], maxDelay |-> d[2],
      backoffMultiplier |-> b, shouldRetry |-> f] :
        m \in 0..MaxPolicyRetries, d \in PolicyDelays, b \in Multipliers,
        f \in [TestErrors -> BOOLEAN]}

RetryInit ==
    /\ req \in {[kind |-> "retry", policy |-> p] : p \in Policies}
    /\ pc = "retry"
    /\ rt = RetryEntry(req.policy)
    /\ net = <<>>
    /\ ctx = <<>>
    /\ out = [kind |-> "none"]

\* An iteration of the loop in which the operation succeeds.
RetryOperationReturns ==
    /\ pc = "retry"
    /\ rt.state = "running"
    /\ rt' = RetryReturn(rt)
    /\ pc' = "done"
    /\ out' = [kind |-> "ok"]
    /\ ctx' = Append(ctx, NoError)
    /\ UNCHANGED <<req, net>>

\* An iteration of the loop in which the operation raises e.
RetryOperationThrows ==
    /\ pc = "retry"
    /\ rt.state = "running"
    /\ \E e \in TestErrors :
        /\ rt' = RetryCatch(rt, req.policy, e)
        /\ ctx' = Append(ctx, e)
        /\ IF rt'.state = "thrown"
           THEN pc' = "done" /\ out' = [kind |-> "error", error |-> rt'.lastError]
           ELSE pc' = pc /\ out' = out
    /\ UNCHANGED <<req, net>>

RetryNext == RetryOperationReturns \/ RetryOperationThrows

SpecRetry == RetryInit /\ [][RetryNext]_vars

\* The executor when every invocation of the operation and every sleep
\* comes to an end: the loop of the code then always takes its next
\* iteration.
SpecRetryFair == SpecRetry /\ WF_vars(RetryNext)

\* The run of the executor in which every invocation failed and shouldRetry
\* accepted every error has ended.
ExhaustedAlwaysRetrying ==
    /\ pc = "done"
    /\ out.kind = "error"
    /\ \A e \in TestErrors : req.policy.shouldRetry[e]

\* C3 (as stated): when every invocation fails and shouldRetry accepts every
\* error, the operation is invoked exactly maxAttempts times, maxAttempts
\* being the policy's limit (the option maxRetries, default 3), and the
\* error thrown is the error of the last invocation.
C3_InvokedLimitTimes ==
    ExhaustedAlwaysRetrying =>
        /\ rt.calls = req.policy.maxRetries
        /\ out.error = ctx[Len(ctx)]

\* C3 (amended): when every invocation fails and shouldRetry accepts every
\* error, the operation is invoked exactly maxRetries + 1 times (the first
\* attempt and maxRetries retries: 4 invocations with the default 3), it
\* sleeps maxRetries times, and the error thrown is the error of the last
\* invocation.
C3_InvokedLimitPlusOneTimes ==
    ExhaustedAlwaysRetrying =>
        /\ rt.calls = req.policy.maxRetries + 1
        /\ Len(ctx) = rt.calls
        /\ Len(rt.sleeps) = req.policy.maxRetries
        /\ out.error = ctx[Len(ctx)]

\* A run with the default limit that failed four times, the last error
\* differing from the one before it.
C3_Witness ==
    /\ ExhaustedAlwaysRetrying
    /\ req.policy.maxRetries = DefaultMaxRetries
    /\ rt.calls = DefaultMaxRetries + 1
    /\ ctx[Len(ctx)] # ctx[Len(ctx) - 1]
    /\ out.error = ctx[Len(ctx)]

(***************************************************************************)
(* Heading/body convention: a fetched ticket written to its file by        *)
(* executeFetch and read back by executeUpdate                             *)
(***************************************************************************)
MaxTitleLen == 2
MaxBodyLen == 3

TitleChars == {"a", "#", " "}
BodyChars == {"a", "=", "#", " ", NL}

\* The strings over chars of length at most n.
RECURSIVE Strings(_, _)
Strings(chars, n) ==
    IF n = 0 THEN {<<>>}
    ELSE LET shorter == Strings(chars, n - 1)
         IN  shorter \cup {Append(t, c) : t \in {u \in shorter : Len(u) = n - 1},
                                          c \in chars}

SplitInit ==
    /\ req \in [kind : {"ticket"},
                title : Strings(TitleChars, MaxTitleLen),
                body : Strings(BodyChars, MaxBodyLen)]
    /\ pc = "fetched"
    /\ rt = <<>>
    /\ net = <<>>
    /\ ctx = <<>>
    /\ out = [kind |-> "none"]

\* executeFetch: the ticket is formatted and written to its file.
WriteTicketFile ==
    /\ pc = "fetched"
    /\ ctx' = formatMarkdown(req.title, req.body)
    /\ pc' = "file"
    /\ UNCHANGED <<req, rt, net, out>>

\* executeUpdate and the plugin: the text after the front matter is
\* normalised and split into the subject and the description.
SplitTicketFile ==
    /\ pc = "file"
    /\ out' = [kind |-> "split",
               title |-> extractSubjectFromMarkdown(bodyContent(ctx)),
               description |-> extractDescriptionFromMarkdown(bodyContent(ctx))]
    /\ pc' = "split"
    /\ UNCHANGED <<req, rt, net, ctx>>

SplitNext == WriteTicketFile \/ SplitTicketFile

SpecSplit == SplitInit /\ [][SplitNext]_vars

\* The body begins with a heading line, in either notation.
BeginsWithHeading(body) ==
    \/ SetextSubjectMatch(body).ok
    \/ (body # <<>> /\ body[1] = "#" /\ AtxSubjectFrom(body, 1).ok)

\* C5: for every title and every body that does not begin with a heading
\* line (the empty title and the empty body included), rendering the pair
\* and splitting the rendered body again yields the same title and the same
\* description.
C5_SplitOfRenderIsIdentity ==
    (pc = "split" /\ ~BeginsWithHeading(req.body)) =>
        (out.title = req.title /\ out.description = req.body)

(***************************************************************************)
(* Error taxonomy (common/error.js)                                        *)
(***************************************************************************)
PmToolError(message, code) ==
    [name |-> "PmToolError", code |-> code, statusCode |-> 0, message |-> message,
     details |-> <<>>]

AuthenticationError(message) ==
    [name |-> "AuthenticationError", code |-> "AUTH_ERROR", statusCode |-> 0,
     message |-> message, details |-> <<>>]

ApiError(message, statusCode) ==
    [name |-> "ApiError", code |-> "API_ERROR", statusCode |-> statusCode,
     message |-> message, details |-> <<>>]

NetworkError(message) ==
    [name |-> "NetworkError", code |-> "NETWORK_ERROR", statusCode |-> 0,
     message |-> message, details |-> <<>>]

ValidationError(message) ==
    [name |-> "ValidationError", code |-> "VALIDATION_ERROR", statusCode |-> 0,
     message |-> message, details |-> <<>>]

\* e constructed with the details object d.
WithDetails(e, d) == [e EXCEPT !.details = d]

\* An error of the runtime (TypeError, SyntaxError): no code, no status.
RuntimeError(name, message) ==
    [name |-> name, code |-> "", statusCode |-> 0, message |-> message,
     details |-> <<>>]

\* The TypeError with which fetch() rejects when no response arrives.
FetchFailed == RuntimeError("TypeError", <<"fetch failed">>)

\* error instanceof PmToolError: PmToolError and its subclasses.
IsPmToolError(e) ==
    e.name \in {"PmToolError", "ConfigError", "AuthenticationError", "ApiError",
                "NetworkError", "ValidationError"}

normalizeError(e) ==
    IF IsPmToolError(e) THEN e
    ELSE IF e.name = "TypeError" /\ e.message = FetchFailed.message
         THEN NetworkError(<<"network error">>)
         ELSE PmToolError(e.message, "UNKNOWN_ERROR")

\* A predicate that takes every error status for transient.
isTransientErrorAnyStatus(e) ==
    \/ e.statusCode >= 400
    \/ e.name = "NetworkError"
    \/ e.code \in {"ETIMEDOUT", "ESOCKETTIMEDOUT"}

isTransientError(e) ==
    \/ e.statusCode = 429
    \/ (e.statusCode >= 500 /\ e.statusCode < 600)
    \/ e.name = "NetworkError"
    \/ e.code \in {"ETIMEDOUT", "ESOCKETTIMEDOUT"}

(***************************************************************************)
(* Responses of the remote service                                         *)
(***************************************************************************)
\* A response of the service: its status, the body of a 2xx response
\* ("json": a JSON document sent with a JSON content type, "text": another
\* content type, "malformed": a JSON content type with a body that does not
\* parse) and its Retry-After header (null when absent).  Status 0 stands
\* for a request that got no response, body then telling how fetch()
\* rejected: with the TypeError "fetch failed" or with an error whose code
\* is ETIMEDOUT.
Statuses == {200, 400, 401, 403, 404, 429, 500}

Responses ==
    {[status |-> st, body |-> "json", retryAfter |-> Null] : st \in Statuses}
        \cup {[status |-> 200, body |-> b, retryAfter |-> Null] :
                  b \in {"text", "malformed"}}
        \cup {[status |-> 0, body |-> b, retryAfter |-> Null] :
                  b \in {"fetch failed", "ETIMEDOUT"}}

NoResponse == [status |-> -1, body |-> "", retryAfter |-> Null]

\* The error with which fetch() rejects when no response arrives.
FetchRejection(response) ==
    IF response.body = "ETIMEDOUT"
    THEN [RuntimeError("FetchError", <<"network timeout">>) EXCEPT !.code = "ETIMEDOUT"]
    ELSE FetchFailed

ResponseOk(response) == response.status >= 200 /\ response.status <= 299

\* Outcome of one invocation of the operation handed to retry.
Returned(json, value) == [ok |-> TRUE, json |-> json, value |-> value, error |-> NoError]
Thrown(e) == [ok |-> FALSE, json |-> FALSE, value |-> <<>>, error |-> e]

\* The options of a retry call whose shouldRetry answers retryable for e.
RetryPolicy(maxRetries, e, retryable) ==
    [maxRetries |-> maxRetries, initialDelay |-> DefaultInitialDelay,
     maxDelay |-> DefaultMaxDelay, backoffMultiplier |-> DefaultBackoffMultiplier,
     shouldRetry |-> (e :> retryable)]

\* One iteration of retry's loop, the operation having ended in result.
RetryStep(r, policy, result) ==
    IF result.ok THEN RetryReturn(r) ELSE RetryCatch(r, policy, result.error)

\* No retry call entered yet.
RetryIdle ==
    [attempt |-> 0, delay |-> 0, lastError |-> NoError, calls |-> 0,
     sleeps |-> <<>>, state |-> "idle"]

(***************************************************************************)
(* Fetch: remote issue to local ticket                                     *)
(***************************************************************************)
removeUndefinedFields(obj) ==
    [k \in {j \in DOMAIN obj : obj[j] # Undefined} |-> obj[k]]

\* The keys formatAsYamlFrontmatter of the Redmine plugin copies.  A nested
\* object is copied as {id, name} when the issue holds an object there, so
\* its dotted keys are copied when present; a null or absent one gives
\* undefined.
RedmineMetaKeys ==
    {"id", "project.id", "project.name", "tracker.id", "tracker.name",
     "status.id", "status.name", "priority.id", "priority.name",
     "author.id", "author.name", "assigned_to.id", "assigned_to.name",
     "category.id", "category.name", "estimated_hours", "start_date",
     "due_date", "done_ratio", "created_on", "updated_on"}

RedmineFormatAsYamlFrontmatter(issue) ==
    [meta |-> removeUndefinedFields([k \in RedmineMetaKeys |-> Get(issue, k)]),
     body |-> IF Truthy(Get(issue, "description"))
              THEN NormalizeNewlines(issue["description"]) ELSE Empty,
     title |-> IF Truthy(Get(issue, "subject")) THEN issue["subject"] ELSE Empty]

BacklogFormatAsYamlFrontmatter(issue) ==
    LET nameOrEmpty(k) == IF Truthy(Get(issue, k)) THEN issue[k] ELSE Empty
        when(cond, k, v) == IF cond THEN k :> v ELSE <<>>
        meta == [backlog_id |-> Get(issue, "id"),
                 backlog_key |-> Get(issue, "issueKey"),
                 project_id |-> Get(issue, "projectId"),
                 title |-> Get(issue, "summary"),
                 type |-> nameOrEmpty("issueType.name"),
                 status |-> nameOrEmpty("status.name"),
                 priority |-> nameOrEmpty("priority.name"),
                 assignee |-> nameOrEmpty("assignee.name"),
                 created_at |-> Get(issue, "created"),
                 updated_at |-> Get(issue, "updated")]
    IN  [meta |-> when(Truthy(Get(issue, "startDate")), "start_date",
                        Get(issue, "startDate"))
                  @@ when(Truthy(Get(issue, "dueDate")), "due_date",
                          Get(issue, "dueDate"))
                  @@ when(Get(issue, "estimatedHours") \notin {Null, Undefined},
                          "estimated_hours", Get(issue, "estimatedHours"))
                  @@ when(Get(issue, "actualHours") \notin {Null, Undefined},
                          "actual_hours", Get(issue, "actualHours"))
                  @@ meta,
         title |-> IF Truthy(Get(issue, "summary")) THEN issue["summary"]
                   ELSE Untitled,
         body |-> IF Truthy(Get(issue, "description"))
                  THEN NormalizeNewlines(issue["description"]) ELSE Empty]

\* formatAsYamlFrontmatter of the bundled Backlog plugin (plugins/backlog.mjs,
\* the file loadPlugin imports): as above, but the description is taken as
\* it is.
BundledBacklogFormatAsYamlFrontmatter(issue) ==
    [BacklogFormatAsYamlFrontmatter(issue) EXCEPT
        !.body = IF Truthy(Get(issue, "description")) THEN issue["description"]
                 ELSE Empty]

(***************************************************************************)
(* Update: local ticket to write payload                                   *)
(***************************************************************************)
\* updateData is {...options, frontmatter, body, ticketId}: options holds
\* the command-line options under their own names.
buildIssueUpdateData(updateData) ==
    LET o == updateData.options
        frontmatter == updateData.frontmatter
        body == updateData.body
        when(cond, k, v) == IF cond THEN k :> v ELSE <<>>
        either(c1, c2, k, v1, v2) ==
            IF c1 THEN k :> v1 ELSE IF c2 THEN k :> v2 ELSE <<>>
    IN  when(Truthy(Get(o, "comment")), "notes", Get(o, "comment"))
        @@ when(Truthy(body), "description", extractDescriptionFromMarkdown(body))
        @@ either(Truthy(Get(o, "status")), Truthy(Get(frontmatter, "status.id")),
                  "status_id", ParseInt(Get(o, "status")),
                  Get(frontmatter, "status.id"))
        @@ either(Truthy(Get(o, "assigned_to")),
                  Truthy(Get(frontmatter, "assigned_to.id")),
                  "assigned_to_id", ParseInt(Get(o, "assigned_to")),
                  Get(frontmatter, "assigned_to.id"))
        @@ either(Get(o, "done_ratio") # Undefined,
                  Get(frontmatter, "done_ratio") # Undefined,
                  "done_ratio", ParseInt(Get(o, "done_ratio")),
                  Get(frontmatter, "done_ratio"))
        @@ either(Get(o, "estimated_hours") # Undefined,
                  Get(frontmatter, "estimated_hours") \notin {Null, Undefined},
                  "estimated_hours", ParseInt(Get(o, "estimated_hours")),
                  Get(frontmatter, "estimated_hours"))
        @@ either(Truthy(Get(o, "start_date")), Truthy(Get(frontmatter, "start_date")),
                  "start_date", Get(o, "start_date"), Get(frontmatter, "start_date"))
        @@ either(Truthy(Get(o, "due_date")), Truthy(Get(frontmatter, "due_date")),
                  "due_date", Get(o, "due_date"), Get(frontmatter, "due_date"))
        @@ when(Truthy(Get(o, "priority")), "priority_id", ParseInt(Get(o, "priority")))
        @@ when(Truthy(Get(o, "category")), "category_id", ParseInt(Get(o, "category")))

\* JSON.stringify of the body of the PUT request: undefined members are
\* left out, NaN is written as null.
JsonStringify(obj) ==
    [k \in {j \in DOMAIN obj : obj[j] # Undefined} |->
        IF obj[k] = NaN THEN Null ELSE obj[k]]

buildUpdatePayload(updateData, originalIssue) ==
    LET frontmatter == updateData.frontmatter
        body == updateData.body
        subject == extractSubjectFromMarkdown(body)
        description == extractDescriptionFromMarkdown(body)
        when(cond, k, v) == IF cond THEN k :> v ELSE <<>>
        orNull(v) == IF Truthy(v) THEN v ELSE Null
    IN  when(Truthy(body) /\ Truthy(subject)
                /\ subject # Get(originalIssue, "summary"), "summary", subject)
        @@ when(Truthy(body) /\ Truthy(description)
                   /\ description # Get(originalIssue, "description"),
                "description", description)
        @@ when(Get(frontmatter, "due_date") # Undefined, "dueDate",
                orNull(Get(frontmatter, "due_date")))
        @@ when(Get(frontmatter, "start_date") # Undefined, "startDate",
                orNull(Get(frontmatter, "start_date")))
        @@ when(Get(frontmatter, "estimated_hours") # Undefined, "estimatedHours",
                Get(frontmatter, "estimated_hours"))
        @@ when(Get(frontmatter, "actual_hours") # Undefined, "actualHours",
                Get(frontmatter, "actual_hours"))

\* The status warning of buildUpdatePayload.
StatusWarning(updateData, originalIssue) ==
    /\ Truthy(Get(updateData.frontmatter, "status"))
    /\ Get(updateData.frontmatter, "status") # Get(originalIssue, "status.name")

\* The form body callBacklogUpdateApi builds from the payload.
FormData(updatePayload) ==
    [k \in {j \in DOMAIN updatePayload : updatePayload[j] \notin {Null, Undefined}}
        |-> StringOf(updatePayload[k])]

(***************************************************************************)
(* Requests: a backend, an operation, a configuration, the remote issue    *)
(* and, for update, the local ticket file and the command-line options     *)
(***************************************************************************)
\* Configurations: each setting present or not, the user name with or
\* without its password, a password without a user name, and an empty URL
\* or API key.
Configs ==
    {[url |-> u, api_key |-> k, username |-> b[1], password |-> b[2]] :
        u \in {Undefined, <<"URL">>}, k \in {Undefined, <<"KEY">>},
        b \in {<<Undefined, Undefined>>, <<<<"USER">>, Undefined>>,
                <<<<"USER">>, <<"PASS">>>>}}
        \cup {[url |-> <<"URL">>, api_key |-> k, username |-> Undefined,
               password |-> <<"PASS">>] : k \in {Undefined, Empty}}
        \cup {[url |-> Empty, api_key |-> <<"KEY">>, username |-> Undefined,
               password |-> Undefined]}

\* Issues as the Redmine REST API returns them (unset members are null or
\* absent).
RedmineIssues ==
    {[k \in {"id", "project.id", "project.name", "status.id", "status.name",
             "assigned_to.id", "assigned_to.name", "estimated_hours",
             "start_date", "due_date", "done_ratio", "created_on", "updated_on",
             "subject", "description"} |->
        CASE k \in {"id", "project.id", "status.id", "assigned_to.id"} -> Number("1")
          [] k = "estimated_hours" -> Number("2")
          [] k = "done_ratio" -> Number("0")
          [] k = "subject" -> <<"a">>
          [] k = "description" -> <<"b">>
          [] k \in {"start_date", "due_date", "created_on", "updated_on"} -> <<"D1">>
          [] OTHER -> <<"NAME">>],
     [k \in {"id", "status.id", "status.name", "estimated_hours", "start_date",
             "due_date", "done_ratio", "created_on", "subject", "description"} |->
        CASE k \in {"id", "status.id"} -> Number("1")
          [] k \in {"estimated_hours", "start_date", "due_date"} -> Null
          [] k = "done_ratio" -> Number("0")
          [] k = "subject" -> <<"a">>
          [] k = "description" -> <<"b", CR, NL, "c">>
          [] k = "created_on" -> <<"D1">>
          [] OTHER -> <<"NAME">>]}

\* Issues as the Backlog API returns them.
BacklogIssues ==
    {[k \in {"id", "issueKey", "projectId", "summary", "description",
             "issueType.name", "status.name", "priority.name", "assignee.name",
             "created", "updated", "startDate", "dueDate", "estimatedHours",
             "actualHours"} |->
        CASE k \in {"id", "projectId"} -> Number("1")
          [] k = "issueKey" -> <<"PROJ-1">>
          [] k \in {"estimatedHours", "actualHours"} -> Number("2")
          [] k = "summary" -> <<"a">>
          [] k = "description" -> <<"b">>
          [] k \in {"created", "updated", "startDate", "dueDate"} -> <<"D1">>
          [] OTHER -> <<"NAME">>],
     [k \in {"id", "issueKey", "projectId", "summary", "description",
             "issueType.name", "status.name", "priority.name", "assignee",
             "created", "updated", "startDate", "dueDate", "estimatedHours",
             "actualHours"} |->
        CASE k \in {"id", "projectId"} -> Number("1")
          [] k = "issueKey" -> <<"PROJ-1">>
          [] k \in {"assignee", "startDate", "dueDate", "estimatedHours",
                    "actualHours"} -> Null
          [] k = "summary" -> <<"a">>
          [] k = "description" -> Empty
          [] k \in {"created", "updated"} -> <<"D1">>
          [] OTHER -> <<"NAME">>]}

\* What the user did to the fetched file before the update: one change
\* of the text or of a date, and possibly another status.
Edits ==
    ({"none", "retitle", "describe", "erase", "clear-due", "null-due", "strip"}
        \X {FALSE})
    \cup ({"none", "describe", "clear-due"} \X {TRUE})

\* The file executeFetch wrote for the fetched ticket, edited, as
\* executeUpdate reads it: the front matter (undefined members are not
\* written) and the normalised text after it.
LocalTicket(fetched, edit) ==
    LET title == IF edit[1] = "retitle" THEN <<"t">> ELSE fetched.title
        body == CASE edit[1] = "describe" -> <<"z">>
                  [] edit[1] = "erase" -> Empty
                  [] OTHER -> fetched.body
        meta == removeUndefinedFields(fetched.meta)
        dated == CASE edit[1] = "clear-due" -> Put(meta, "due_date", Empty)
                   [] edit[1] = "null-due" -> Put(meta, "due_date", Null)
                   [] edit[1] = "strip" ->
                         Without(meta, DOMAIN meta \ {"id", "backlog_key"})
                   [] OTHER -> meta
    IN  [frontmatter |->
            IF ~edit[2] THEN dated
            ELSE IF "backlog_key" \in DOMAIN meta
                 THEN Put(dated, "status", <<"OTHER">>)
                 ELSE Put(dated, "status.id", Number("2")),
         body |-> IF edit[1] = "strip" THEN Empty
                  ELSE bodyContent(formatMarkdown(title, body))]

\* getUpdateOptions of the two plugins: the names of the update options,
\* with the type each declares.
RedmineGetUpdateOptions ==
    [n \in {"comment", "start-date", "due-date"} |-> "string"]
        @@ [n \in {"status", "assigned-to", "done-ratio", "estimated-hours",
                   "priority", "category"} |-> "number"]

BacklogGetUpdateOptions ==
    [n \in {"summary", "start-date", "due-date"} |-> "string"]
        @@ [n \in {"estimated-hours", "actual-hours"} |-> "number"]

\* Command-line options as parseArgs returns them: the boolean dry-run is
\* always present, an update option only when given, under its declared
\* name and as a string.
Options(declared) ==
    LET given(n) == IF declared[n] = "number" THEN <<"2">>
                    ELSE IF n \in {"start-date", "due-date"} THEN <<"D2">>
                    ELSE <<"d", "o", "n", "e">>
    IN  {("dry-run" :> dry) @@ o :
            dry \in {<<"true">>, <<"false">>},
            o \in {<<>>} \cup {n :> given(n) : n \in DOMAIN declared}}

NoUpdateData == [options |-> <<>>, frontmatter |-> <<>>, body |-> Empty]

Requests ==
    LET fetches(backend, issues, idKey) ==
            {[backend |-> backend, op |-> "fetch", config |-> c,
              ticketId |-> i[idKey], remote |-> i, updateData |-> NoUpdateData] :
                c \in Configs, i \in issues}
        updates(backend, issues, idKey, options, fetched(_)) ==
            {[backend |-> backend, op |-> "update", config |-> c,
              ticketId |-> i[idKey], remote |-> i,
              updateData |-> [options |-> o] @@ LocalTicket(fetched(i), e)] :
                c \in Configs, i \in issues, o \in options, e \in Edits}
        withCarriageReturns(issues) ==
            issues \cup {[i EXCEPT !["description"] = <<"b", CR, NL, "c", CR, "d">>] :
                             i \in issues}
    IN  fetches("redmine", withCarriageReturns(RedmineIssues), "id")
        \cup fetches("backlog", withCarriageReturns(BacklogIssues), "issueKey")
        \cup updates("redmine", RedmineIssues, "id", Options(RedmineGetUpdateOptions),
                     RedmineFormatAsYamlFrontmatter)
        \cup updates("backlog", BacklogIssues, "issueKey", Options(BacklogGetUpdateOptions),
                     BacklogFormatAsYamlFrontmatter)

Init ==
    /\ req \in Requests
    /\ pc = "start"
    /\ rt = RetryIdle
    /\ net = [reads |-> 0, writes |-> 0, last |-> NoResponse, sent |-> <<>>]
    /\ ctx = [payload |-> <<>>, warnings |-> <<>>]
    /\ out = [kind |-> "none"]

Failed(e) == [kind |-> "error", error |-> e]
Succeeded(result) == [kind |-> "ok", result |-> result]

(***************************************************************************)
(* Transport client (common/api.js) and the Redmine plugin                 *)
(***************************************************************************)
ApiRequestMaxRetries == 3

\* The operation apiRequest hands to retry: one fetch() and the
\* classification of its response; value is the parsed JSON body.
apiRequestAttempt(response, value) ==
    CASE response.status = 0 ->
            IF FetchRejection(response).name = "TypeError"
            THEN Thrown(NetworkError(<<"network error">>))
            ELSE Thrown(FetchRejection(response))
      [] response.status = 401 ->
            Thrown(AuthenticationError(<<"authentication failed, check the API key or token">>))
      [] response.status = 403 ->
            Thrown(AuthenticationError(<<"no access permission">>))
      [] response.status = 429 ->
            Thrown(WithDetails(ApiError(<<"rate limit reached">>, response.status),
                               [retryAfter |-> response.retryAfter]))
      [] response.status >= 500 ->
            Thrown(ApiError(<<"server error">>, response.status))
      [] response.status \notin {0, 401, 403, 429} /\ response.status < 500
            /\ ~ResponseOk(response) ->
            Thrown(ApiError(<<"API error: statusText">>, response.status))
      [] OTHER ->
            IF response.body = "malformed"
            THEN Thrown(RuntimeError("SyntaxError", <<"Unexpected token in JSON">>))
            ELSE Returned(response.body = "json", value)

\* A configuration check that accepts the API key only.
RedmineConfigErrorKeyOnly(config) ==
    IF ~Truthy(config.url)
    THEN ValidationError(<<"Redmine URL is not configured (integration.pm_tool.redmine.url)">>)
    ELSE IF ~Truthy(config.api_key)
         THEN ValidationError(<<"Redmine credentials are not configured">>)
         ELSE NoError

\* The configuration check at the head of fetchTicket and updateTicket.
RedmineConfigError(config) ==
    LET hasApiKey == Truthy(config.api_key)
        hasBasicAuth == Truthy(config.username) /\ Truthy(config.password)
    IN  IF ~Truthy(config.url)
        THEN ValidationError(<<"Redmine URL is not configured (integration.pm_tool.redmine.url)">>)
        ELSE IF ~hasApiKey /\ ~hasBasicAuth
             THEN ValidationError(<<"Redmine credentials are not configured">>)
             ELSE NoError

\* The catch clause of fetchTicket and updateTicket, applied to what
\* apiRequest threw.
RedmineCatch(e, ticketId) ==
    IF e.name = "ApiError" /\ e.statusCode = 404
    THEN ApiError(<<"Ticket #">> \o ticketId \o <<" not found (404 Not Found)">>, 404)
    ELSE e

FetchTicketStart ==
    /\ pc = "start" /\ req.backend = "redmine" /\ req.op = "fetch"
    /\ LET e == RedmineConfigError(req.config)
       IN  IF e # NoError
           THEN out' = Failed(e) /\ pc' = "done" /\ rt' = rt
           ELSE /\ out' = out
                /\ pc' = "request"
                /\ rt' = RetryEntry(RetryPolicy(ApiRequestMaxRetries, NoError, FALSE))
    /\ UNCHANGED <<req, net, ctx>>

FetchTicketAttempt ==
    /\ pc = "request" /\ req.backend = "redmine" /\ req.op = "fetch"
    /\ \E response \in Responses :
        LET result == apiRequestAttempt(response, [issue |-> req.remote])
            policy == RetryPolicy(ApiRequestMaxRetries, result.error,
                                  isTransientError(result.error))
            r == RetryStep(rt, policy, result)
        IN  /\ rt' = r
            /\ net' = [net EXCEPT !.reads = @ + 1, !.last = response]
            /\ CASE r.state = "returned" ->
                      /\ pc' = "done"
                      /\ out' = IF result.json
                                THEN Succeeded(RedmineFormatAsYamlFrontmatter(result.value.issue))
                                ELSE Failed(RuntimeError("TypeError",
                                        <<"Cannot read properties of undefined (reading 'id')">>))
                 [] r.state = "thrown" ->
                      /\ pc' = "done"
                      /\ out' = Failed(RedmineCatch(normalizeError(r.lastError),
                                                    req.ticketId))
                 [] OTHER -> UNCHANGED <<pc, out>>
    /\ UNCHANGED <<req, ctx>>

UpdateTicketStart ==
    /\ pc = "start" /\ req.backend = "redmine" /\ req.op = "update"
    /\ LET e == RedmineConfigError(req.config)
           issueData == buildIssueUpdateData(req.updateData)
           o == req.updateData.options
       IN  CASE e # NoError ->
                  out' = Failed(e) /\ pc' = "done" /\ UNCHANGED <<rt, ctx>>
             [] e = NoError /\ DOMAIN issueData = {} ->
                  /\ out' = Failed(ValidationError(<<"nothing to update">>))
                  /\ pc' = "done"
                  /\ UNCHANGED <<rt, ctx>>
             [] e = NoError /\ DOMAIN issueData # {}
                    /\ (Truthy(Get(o, "dryRun")) \/ Truthy(Get(o, "dry-run"))) ->
                  /\ out' = Succeeded([success |-> TRUE, dryRun |-> TRUE,
                                       message |-> <<"[DRY RUN] Ticket #">> \o req.ticketId
                                                       \o <<" update simulated">>,
                                       updated |-> issueData])
                  /\ pc' = "done"
                  /\ ctx' = [ctx EXCEPT !.payload = issueData]
                  /\ rt' = rt
             [] OTHER ->
                  /\ out' = out
                  /\ pc' = "request"
                  /\ ctx' = [ctx EXCEPT !.payload = issueData]
                  /\ rt' = RetryEntry(RetryPolicy(ApiRequestMaxRetries, NoError, FALSE))
    /\ UNCHANGED <<req, net>>

UpdateTicketAttempt ==
    /\ pc = "request" /\ req.backend = "redmine" /\ req.op = "update"
    /\ \E response \in Responses :
        LET result == apiRequestAttempt(response, <<>>)
            policy == RetryPolicy(ApiRequestMaxRetries, result.error,
                                  isTransientError(result.error))
            r == RetryStep(rt, policy, result)
        IN  /\ rt' = r
            /\ net' = [net EXCEPT !.writes = @ + 1, !.last = response,
                                  !.sent = JsonStringify(ctx.payload)]
            /\ CASE r.state = "returned" ->
                      /\ pc' = "done"
                      /\ out' = Succeeded([success |-> TRUE,
                                           message |-> <<"Ticket #">> \o req.ticketId
                                                           \o <<" updated">>,
                                           updated |-> ctx.payload])
                 [] r.state = "thrown" ->
                      /\ pc' = "done"
                      /\ out' = Failed(RedmineCatch(normalizeError(r.lastError),
                                                    req.ticketId))
                 [] OTHER -> UNCHANGED <<pc, out>>
    /\ UNCHANGED <<req, ctx>>

(***************************************************************************)
(* Backlog plugin                                                          *)
(***************************************************************************)
BacklogFetchMaxRetries == 3
BacklogReadMaxRetries == 3
BacklogWriteMaxRetries == 2

\* A configuration check that asks for the URL only.
BacklogConfigErrorUrlOnly(config) ==
    IF ~Truthy(config.url)
    THEN ValidationError(<<"Backlog URL is not configured (integration.pm_tool.backlog.url)">>)
    ELSE NoError

\* The configuration check at the head of fetchIssue and updateIssue.
BacklogConfigError(config) ==
    IF ~Truthy(config.url)
    THEN ValidationError(<<"Backlog URL is not configured (integration.pm_tool.backlog.url)">>)
    ELSE IF ~Truthy(config.api_key)
         THEN ValidationError(<<"Backlog API key is not configured (integration.pm_tool.backlog.api_key)">>)
         ELSE NoError

\* handleApiResponse of update, and the same classification inlined in
\* callBacklogApi of fetch: response.json() of a body that is no JSON
\* throws a SyntaxError.
handleApiResponse(response, issue) ==
    IF ~ResponseOk(response)
    THEN IF response.status = 401
         THEN Thrown(AuthenticationError(<<"authentication failed, check the API key">>))
         ELSE IF response.status = 404
              THEN Thrown(ApiError(<<"the specified issue was not found">>, response.status))
              ELSE Thrown(ApiError(<<"Backlog API error: status statusText">>,
                                   response.status))
    ELSE IF response.body = "json" THEN Returned(TRUE, issue)
         ELSE Thrown(RuntimeError("SyntaxError", <<"Unexpected token in JSON">>))

\* A call that swallows every failure and hands back the issue it was given:
\* what the read of update must not be.
callBacklogGetApiSwallowing(response, issue) == Returned(TRUE, issue)

\* callBacklogGetApi and callBacklogUpdateApi of update: the rejection of
\* fetch() is not caught.
callBacklogGetApi(response, issue) ==
    IF response.status = 0 THEN Thrown(FetchRejection(response))
    ELSE handleApiResponse(response, issue)

\* callBacklogApi of fetch: its catch clause turns the rejection of fetch()
\* into a NetworkError and rethrows everything else.
callBacklogApi(response, issue) ==
    LET result == callBacklogGetApi(response, issue)
    IN  IF result.ok \/ result.error.name \in {"ValidationError", "AuthenticationError", "ApiError"}
        THEN result
        ELSE IF result.error.name = "TypeError" /\ result.error.message = FetchFailed.message
             THEN Thrown(NetworkError(<<"network error">>))
             ELSE result

\* shouldRetry of fetchIssue and of the read of updateIssue.
BacklogShouldRetry(e) ==
    /\ e.name # "AuthenticationError"
    /\ ~(e.name = "ApiError" /\ e.statusCode = 404)

\* shouldRetry of the write of updateIssue.
BacklogShouldRetryWrite(e) ==
    /\ e.name # "AuthenticationError"
    /\ ~(e.name = "ApiError" /\ e.statusCode = 404)
    /\ ~(e.name = "ApiError" /\ e.statusCode = 400)

FetchIssueStart ==
    /\ pc = "start" /\ req.backend = "backlog" /\ req.op = "fetch"
    /\ LET e == BacklogConfigError(req.config)
       IN  IF e # NoError
           THEN out' = Failed(e) /\ pc' = "done" /\ rt' = rt
           ELSE /\ out' = out
                /\ pc' = "request"
                /\ rt' = RetryEntry(RetryPolicy(BacklogFetchMaxRetries, NoError, FALSE))
    /\ UNCHANGED <<req, net, ctx>>

FetchIssueAttempt ==
    /\ pc = "request" /\ req.backend = "backlog" /\ req.op = "fetch"
    /\ \E response \in Responses, bundled \in BOOLEAN :
        LET result == callBacklogApi(response, req.remote)
            policy == RetryPolicy(BacklogFetchMaxRetries, result.error,
                                  BacklogShouldRetry(result.error))
            r == RetryStep(rt, policy, result)
        IN  /\ rt' = r
            /\ net' = [net EXCEPT !.reads = @ + 1, !.last = response]
            /\ CASE r.state = "returned" ->
                      /\ pc' = "done"
                      /\ out' = Succeeded(
                                    IF bundled
                                    THEN BundledBacklogFormatAsYamlFrontmatter(result.value)
                                    ELSE BacklogFormatAsYamlFrontmatter(result.value))
                 [] r.state = "thrown" ->
                      pc' = "done" /\ out' = Failed(r.lastError)
                 [] OTHER -> UNCHANGED <<pc, out>>
    /\ UNCHANGED <<req, ctx>>

UpdateIssueStart ==
    /\ pc = "start" /\ req.backend = "backlog" /\ req.op = "update"
    /\ LET e == BacklogConfigError(req.config)
       IN  IF e # NoError
           THEN out' = Failed(e) /\ pc' = "done" /\ rt' = rt
           ELSE /\ out' = out
                /\ pc' = "read"
                /\ rt' = RetryEntry(RetryPolicy(BacklogReadMaxRetries, NoError, FALSE))
    /\ UNCHANGED <<req, net, ctx>>

\* One attempt of the read of the original issue and, once it returned,
\* the construction of the payload up to the second retry call.
UpdateIssueRead ==
    /\ pc = "read"
    /\ \E response \in Responses :
        LET result == callBacklogGetApi(response, req.remote)
            policy == RetryPolicy(BacklogReadMaxRetries, result.error,
                                  BacklogShouldRetry(result.error))
            r == RetryStep(rt, policy, result)
            updatePayload == buildUpdatePayload(req.updateData, result.value)
        IN  /\ net' = [net EXCEPT !.reads = @ + 1, !.last = response]
            /\ CASE r.state = "returned" /\ DOMAIN updatePayload = {} ->
                      /\ rt' = r
                      /\ pc' = "done"
                      /\ out' = Succeeded([success |-> TRUE,
                                           message |-> <<"nothing to update">>])
                      /\ ctx' = [ctx EXCEPT !.warnings =
                                    IF StatusWarning(req.updateData, result.value)
                                    THEN Append(@, "status") ELSE @]
                 [] r.state = "returned" /\ DOMAIN updatePayload # {} ->
                      /\ rt' = RetryEntry(RetryPolicy(BacklogWriteMaxRetries, NoError, FALSE))
                      /\ pc' = "write"
                      /\ out' = out
                      /\ ctx' = [payload |-> updatePayload,
                                 warnings |-> IF StatusWarning(req.updateData, result.value)
                                              THEN Append(ctx.warnings, "status")
                                              ELSE ctx.warnings]
                 [] r.state = "thrown" ->
                      rt' = r /\ pc' = "done" /\ out' = Failed(r.lastError) /\ ctx' = ctx
                 [] OTHER -> rt' = r /\ UNCHANGED <<pc, out, ctx>>
    /\ UNCHANGED req

UpdateIssueWrite ==
    /\ pc = "write"
    /\ \E response \in Responses :
        LET result == callBacklogGetApi(response, req.remote)
            policy == RetryPolicy(BacklogWriteMaxRetries, result.error,
                                  BacklogShouldRetryWrite(result.error))
            r == RetryStep(rt, policy, result)
        IN  /\ rt' = r
            /\ net' = [net EXCEPT !.writes = @ + 1, !.last = response,
                                  !.sent = FormData(ctx.payload)]
            /\ CASE r.state = "returned" ->
                      /\ pc' = "done"
                      /\ out' = Succeeded([success |-> TRUE, issue |-> result.value])
                 [] r.state = "thrown" ->
                      pc' = "done" /\ out' = Failed(r.lastError)
                 [] OTHER -> UNCHANGED <<pc, out>>
    /\ UNCHANGED <<req, ctx>>

Next ==
    \/ FetchTicketStart
    \/ FetchTicketAttempt
    \/ UpdateTicketStart
    \/ UpdateTicketAttempt
    \/ FetchIssueStart
    \/ FetchIssueAttempt
    \/ UpdateIssueStart
    \/ UpdateIssueRead
    \/ UpdateIssueWrite

Spec == Init /\ [][Next]_vars

(***************************************************************************)
(* Properties of fetch and update                                          *)
(***************************************************************************)
\* The fields an update option overrides: the option's declared name, the
\* front-matter key and the payload key of the same field.
OverrideFields ==
    {[backend |-> "redmine", option |-> f[1], frontmatter |-> f[2], payload |-> f[3]] :
        f \in {<<"status", "status.id", "status_id">>,
               <<"assigned-to", "assigned_to.id", "assigned_to_id">>,
               <<"done-ratio", "done_ratio", "done_ratio">>,
               <<"estimated-hours", "estimated_hours", "estimated_hours">>,
               <<"start-date", "start_date", "start_date">>,
               <<"due-date", "due_date", "due_date">>}}
    \cup
    {[backend |-> "backlog", option |-> f[1], frontmatter |-> f[2], payload |-> f[3]] :
        f \in {<<"summary", "title", "summary">>,
               <<"start-date", "start_date", "startDate">>,
               <<"due-date", "due_date", "dueDate">>,
               <<"estimated-hours", "estimated_hours", "estimatedHours">>,
               <<"actual-hours", "actual_hours", "actualHours">>}}

\* C1: whenever a write was sent for an update that gives an override under
\* a declared option name and whose front matter holds a value for the same
\* field, the payload sent carries the override's value (a number for the
\* number-typed options of Redmine's JSON payload), for both backends.
C1_OverrideWinsOverFrontmatter ==
    \A f \in OverrideFields :
        (/\ req.op = "update" /\ req.backend = f.backend
         /\ net.writes > 0
         /\ f.option \in DOMAIN req.updateData.options
         /\ Truthy(Get(req.updateData.frontmatter, f.frontmatter)))
        => Get(net.sent, f.payload) =
              IF f.backend = "redmine" /\ RedmineGetUpdateOptions[f.option] = "number"
              THEN ParseInt(req.updateData.options[f.option])
              ELSE req.updateData.options[f.option]

DryRunRequested == Truthy(Get(req.updateData.options, "dry-run"))

\* C2: an update invoked with dry-run sends no write request, and the
\* result it returns has success = true and is flagged as simulated, for
\* every backend.
C2_DryRunWritesNothing ==
    (req.op = "update" /\ DryRunRequested) =>
        /\ net.writes = 0
        /\ (pc = "done" /\ out.kind = "ok") =>
              /\ out.result.success
              /\ "dryRun" \in DOMAIN out.result
              /\ out.result.dryRun

\* C4: after a response with status 401, 403 or 404 the operation has ended
\* with an error: no further request and no sleep follows that response.
C4_AuthAndNotFoundNeverRetried ==
    net.last.status \in {401, 403, 404} =>
        /\ pc = "done"
        /\ out.kind = "error"
        /\ Len(rt.sleeps) = rt.calls - 1

DateFields ==
    {[backend |-> "redmine", options |-> {f[1], f[2]}, frontmatter |-> f[2], payload |-> f[2]] :
        f \in {<<"start-date", "start_date">>, <<"due-date", "due_date">>}}
    \cup
    {[backend |-> "backlog", options |-> {f[1]}, frontmatter |-> f[2], payload |-> f[3]] :
        f \in {<<"start-date", "start_date", "startDate">>,
               <<"due-date", "due_date", "dueDate">>}}

\* C6: in every write sent by update, a date field the local ticket holds
\* as empty is transmitted (empty, so that the remote value is cleared), a
\* date field no source supplies is not transmitted, and no other field is
\* transmitted as null or empty.
C6_OnlyExplicitlyClearedDatesAreSentEmpty ==
    (req.op = "update" /\ net.writes > 0) =>
        /\ \A d \in {f \in DateFields : f.backend = req.backend} :
              /\ (/\ d.frontmatter \in DOMAIN req.updateData.frontmatter
                  /\ req.updateData.frontmatter[d.frontmatter] = Empty
                  /\ d.options \cap DOMAIN req.updateData.options = {})
                 => (d.payload \in DOMAIN net.sent
                        /\ net.sent[d.payload] \in {Empty, Null})
              /\ (/\ d.frontmatter \notin DOMAIN req.updateData.frontmatter
                  /\ d.options \cap DOMAIN req.updateData.options = {})
                 => d.payload \notin DOMAIN net.sent
        /\ \A k \in DOMAIN net.sent :
              net.sent[k] \in {Empty, Null} =>
                 \E d \in DateFields : d.backend = req.backend /\ d.payload = k

\* C7: the metadata of every fetched ticket holds no key whose value is
\* null, undefined or the empty string, for every backend.
C7_NoEmptyMetadata ==
    (req.op = "fetch" /\ pc = "done" /\ out.kind = "ok") =>
        \A k \in DOMAIN out.result.meta :
            out.result.meta[k] \notin {Null, Undefined, Empty}

\* The message of e holds the ticket identifier.
NamesTicket(e) == \E i \in 1..Len(e.message) : e.message[i] = req.ticketId[1]

\* C8: when the write request of an update was answered with 404, update
\* ends with an ApiError of status 404 whose message names the ticket
\* identifier, for every backend.
C8_WriteNotFoundNamesTicket ==
    (req.op = "update" /\ pc = "done" /\ net.writes > 0 /\ net.last.status = 404) =>
        /\ out.kind = "error"
        /\ out.error.name = "ApiError"
        /\ out.error.statusCode = 404
        /\ NamesTicket(out.error)

\* C9: every error with which fetch or update ends is of one of the five
\* kinds of the taxonomy or the generic wrapped kind; no error of the
\* runtime reaches the caller.
C9_OnlyTaxonomyErrorsEscape ==
    (pc = "done" /\ out.kind = "error") =>
        out.error.name \in {"ConfigError", "AuthenticationError", "ApiError",
                            "NetworkError", "ValidationError", "PmToolError"}

\* C10: every field of the payload the Backlog update writes differs from
\* the value of that field in the remote issue just read, and an update
\* from the unedited local ticket of that issue sends no write request.
C10_BacklogWritesOnlyChangedFields ==
    (req.backend = "backlog" /\ req.op = "update" /\ net.writes > 0) =>
        /\ \A k \in DOMAIN ctx.payload : ctx.payload[k] # Get(req.remote, k)
        /\ ~(/\ DOMAIN req.updateData.options = {"dry-run"}
             /\ [frontmatter |-> req.updateData.frontmatter,
                 body |-> req.updateData.body]
                  = LocalTicket(BacklogFormatAsYamlFrontmatter(req.remote),
                                <<"none", FALSE>>))

\* The value an update of the Backlog backend requests for the payload
\* field k: the override when one is given, else the value of the local
\* ticket (undefined when no source supplies one).
BacklogRequested(k) ==
    LET u == req.updateData
        option == CASE k = "summary" -> "summary"
                    [] k = "startDate" -> "start-date"
                    [] k = "dueDate" -> "due-date"
                    [] k = "estimatedHours" -> "estimated-hours"
                    [] k = "actualHours" -> "actual-hours"
                    [] OTHER -> "dry-run"
        local == CASE k = "summary" ->
                        IF Truthy(u.body) THEN extractSubjectFromMarkdown(u.body)
                        ELSE Undefined
                   [] k = "description" ->
                        IF Truthy(u.body) THEN extractDescriptionFromMarkdown(u.body)
                        ELSE Undefined
                   [] k = "startDate" -> Get(u.frontmatter, "start_date")
                   [] k = "dueDate" -> Get(u.frontmatter, "due_date")
                   [] k = "estimatedHours" -> Get(u.frontmatter, "estimated_hours")
                   [] k = "actualHours" -> Get(u.frontmatter, "actual_hours")
    IN  IF k # "description" /\ option \in DOMAIN u.options THEN u.options[option]
        ELSE local

\* A value as it is compared and transmitted: no value is the empty string,
\* a number its digits.
Plain(v) == IF v \in {Null, Undefined, Empty} THEN Empty ELSE StringOf(v)

\* The fields of the Backlog payload whose requested value differs from the
\* remote issue's.
BacklogChangedFields ==
    {k \in {"summary", "description", "startDate", "dueDate", "estimatedHours",
            "actualHours"} :
        /\ BacklogRequested(k) # Undefined
        /\ Plain(BacklogRequested(k)) # Plain(Get(req.remote, k))}

\* The front-matter status differs from the remote status name, and the
\* read of the original issue has returned.
StatusDiffersAfterRead ==
    /\ req.backend = "backlog" /\ req.op = "update"
    /\ StatusWarning(req.updateData, req.remote)
    /\ (pc = "write" \/ (pc = "done" /\ (net.writes > 0 \/ out.kind = "ok")))

\* C11: in the Backlog update with a front-matter status other than the
\* remote status name, a warning referencing status is recorded, status is
\* not in the write payload, the update fails only when the service does
\* not answer the write with a parseable 2xx response, every other changed
\* field is written with its requested value, and the result reports
\* success.
C11_StatusMismatchWarnedAndOthersWritten ==
    StatusDiffersAfterRead =>
        /\ \E i \in 1..Len(ctx.warnings) : ctx.warnings[i] = "status"
        /\ {"status", "statusId"} \cap (DOMAIN ctx.payload \cup DOMAIN net.sent) = {}
        /\ (pc = "done" /\ out.kind = "error") =>
              ~(ResponseOk(net.last) /\ net.last.body = "json")
        /\ (pc = "done" /\ out.kind = "ok") => out.result.success
        /\ (pc = "done" /\ net.writes = 0) => BacklogChangedFields = {}
        /\ net.writes > 0 =>
              \A k \in BacklogChangedFields :
                  /\ k \in DOMAIN net.sent
                  /\ net.sent[k] = Plain(BacklogRequested(k))

(***************************************************************************)
(* Identifier resolution (cli.js: parseTicketIdFromUrl, executeFetch)      *)
(***************************************************************************)
Digits == {"0", "1", "2", "3", "4", "5", "6", "7", "8", "9"}
UpperCase ==
    {"A", "B", "C", "D", "E", "F", "G", "H", "I", "J", "K", "L", "M",
     "N", "O", "P", "Q", "R", "S", "T", "U", "V", "W", "X", "Y", "Z"}

\* A prefix test that compares the scheme letters only.
StartsWithSchemeLetters(s, prefix) ==
    Len(s) >= 4 /\ SubSeq(s, 1, 4) = SubSeq(prefix, 1, 4)

\* String.prototype.startsWith
StartsWith(s, prefix) ==
    Len(s) >= Len(prefix) /\ SubSeq(s, 1, Len(prefix)) = prefix

\* String.prototype.includes
Includes(s, part) ==
    \E i \in 1..(Len(s) + 1 - Len(part)) : SubSeq(s, i, i + Len(part) - 1) = part

\* The port a scheme implies; the URL parser reports it as the empty port.
DefaultPort(scheme) ==
    CASE scheme = <<"h", "t", "t", "p", "s">> -> <<"4", "4", "3">>
      [] scheme = <<"h", "t", "t", "p">> -> <<"8", "0">>
      [] scheme = <<"f", "t", "p">> -> <<"2", "1">>
      [] OTHER -> <<>>

\* new URL(text), for the members the resolver reads: a text without
\* "scheme://host" is no URL (the constructor throws a TypeError), a missing
\* path is "/", the default port of the scheme is the empty port.
ParseUrl(text) ==
    LET n == RunNotIn(text, 1, {":"})
        scheme == SubSeq(text, 1, n)
        rest == SubSeq(text, n + 4, Len(text))
        a == RunNotIn(rest, 1, {"/"})
        authority == SubSeq(rest, 1, a)
        h == RunNotIn(authority, 1, {":"})
        portText == SubSeq(authority, h + 2, Len(authority))
    IN  IF /\ n >= 1
           /\ Len(text) >= n + 3
           /\ SubSeq(text, n + 1, n + 3) = <<":", "/", "/">>
           /\ h >= 1
        THEN [ok |-> TRUE,
              protocol |-> scheme \o <<":">>,
              hostname |-> SubSeq(authority, 1, h),
              port |-> IF portText = DefaultPort(scheme) THEN <<>> ELSE portText,
              pathname |-> IF a = Len(rest) THEN <<"/">> ELSE SubSeq(rest, a + 1, Len(rest))]
        ELSE [ok |-> FALSE, protocol |-> <<>>, hostname |-> <<>>, port |-> <<>>,
              pathname |-> <<>>]

\* pathname.match(/\/issues\/(\d+)/): the leftmost "/issues/" that a digit
\* follows, and the run of digits after it.
IssuesMatch(pathname) ==
    LET prefix == <<"/", "i", "s", "s", "u", "e", "s", "/">>
        at == {i \in 1..(Len(pathname) - Len(prefix)) :
                  /\ SubSeq(pathname, i, i + Len(prefix) - 1) = prefix
                  /\ RunIn(pathname, i + Len(prefix), Digits) >= 1}
    IN  IF at = {} THEN NoMatch
        ELSE LET i == CHOOSE j \in at : \A k \in at : j <= k
                 d == i + Len(prefix)
             IN  Match(<<SubSeq(pathname, d, d + RunIn(pathname, d, Digits) - 1)>>)

\* pathname.match(/\/view\/([A-Z]+-\d+)/)
ViewMatch(pathname) ==
    LET prefix == <<"/", "v", "i", "e", "w", "/">>
        KeyLen(k) ==
            LET u == RunIn(pathname, k, UpperCase)
                d == RunIn(pathname, k + u + 1, Digits)
            IN  IF /\ u >= 1
                   /\ k + u <= Len(pathname)
                   /\ pathname[k + u] = "-"
                   /\ d >= 1
                THEN u + 1 + d ELSE 0
        at == {i \in 1..(Len(pathname) - Len(prefix)) :
                  /\ SubSeq(pathname, i, i + Len(prefix) - 1) = prefix
                  /\ KeyLen(i + Len(prefix)) >= 1}
    IN  IF at = {} THEN NoMatch
        ELSE LET i == CHOOSE j \in at : \A k \in at : j <= k
                 k == i + Len(prefix)
             IN  Match(<<SubSeq(pathname, k, k + KeyLen(k) - 1)>>)

\* parseUrl of the Redmine plugin and of the Backlog plugin: the identifier,
\* or null.
RedmineParseUrl(url) ==
    LET u == ParseUrl(url)
    IN  IF u.ok /\ IssuesMatch(u.pathname).ok THEN IssuesMatch(u.pathname).g[1] ELSE Null

BacklogParseUrl(url) ==
    LET u == ParseUrl(url)
    IN  IF u.ok /\ ViewMatch(u.pathname).ok THEN ViewMatch(u.pathname).g[1] ELSE Null

\* parseTicketIdFromUrl(input, configUrl): the identifier returned, or the
\* error thrown.  new URL(configUrl) throws a TypeError for a configUrl that
\* is no URL, which the catch clause turns into INVALID_URL.
parseTicketIdFromUrl(input, configUrl) ==
    LET inputStr == StringOf(input)
        inputUrl == ParseUrl(inputStr)
        configUrlObj == ParseUrl(StringOf(configUrl))
        match == IssuesMatch(inputUrl.pathname)
    IN  IF ~StartsWith(inputStr, <<"h", "t", "t", "p", ":", "/", "/">>) /\ ~StartsWith(inputStr, <<"h", "t", "t", "p", "s", ":", "/", "/">>)
        THEN Returned(FALSE, inputStr)
        ELSE IF ~inputUrl.ok \/ ~configUrlObj.ok
        THEN Thrown(PmToolError(<<"invalid URL: ">> \o inputStr, "INVALID_URL"))
        ELSE IF \/ inputUrl.protocol # configUrlObj.protocol
                \/ inputUrl.hostname # configUrlObj.hostname
                \/ inputUrl.port # configUrlObj.port
        THEN Thrown(WithDetails(
                 PmToolError(<<"URL does not match the configuration", NL, "configured: ">>
                                 \o StringOf(configUrl) \o <<NL, "input: ">> \o inputStr,
                             "URL_MISMATCH"),
                 [configUrl |-> configUrl, inputUrl |-> inputStr]))
        ELSE IF ~match.ok
        THEN Thrown(PmToolError(<<"no ticket number in the URL: ">> \o inputStr,
                                "INVALID_URL_FORMAT"))
        ELSE Returned(FALSE, match.g[1])

\* What the command line hands to executeFetch: identifiers (an all-digit
\* argument arrives as a number), texts that are no URL, and URLs.
IdentifierInputs ==
    {Empty, Number("1"),
     <<"1", "2">>,
     <<"P", "J", "-", "1">>,
     <<"x", "/", "i", "s", "s", "u", "e", "s", "/", "1", "2">>,
     <<"a", "/", "v", "i", "e", "w", "/", "P", "J", "-", "1">>,
     <<"h", "t", "t", "p", ":", "/", "a">>}

UrlInputs ==
    {s \o <<":", "/", "/">> \o h \o p \o t :
        s \in {<<"h", "t", "t", "p">>, <<"h", "t", "t", "p", "s">>,
               <<"f", "t", "p">>},
        h \in {<<"a">>, <<"b">>},
        p \in {<<>>, <<":", "4", "4", "3">>, <<":", "8", "0", "8", "0">>},
        t \in {<<>>,
               <<"/", "i", "s", "s", "u", "e", "s", "/", "1", "2">>,
               <<"/", "i", "s", "s", "u", "e", "s", "/", "1", "2", ".", "j", "s", "o", "n">>,
               <<"/", "v", "i", "e", "w", "/", "P", "J", "-", "1">>,
               <<"/", "i", "s", "s", "u", "e", "s", "/", "x">>,
               <<"/", "p", "/", "i", "s", "s", "u", "e", "s", "/", "7">>}}

\* config.url of the selected tool: absent, or a base URL.
ConfigUrls ==
    {Undefined} \cup
    {s \o <<":", "/", "/">> \o h \o p :
        s \in {<<"h", "t", "t", "p">>, <<"h", "t", "t", "p", "s">>},
        h \in {<<"a">>, <<"b">>},
        p \in {<<>>, <<":", "8", "0", "8", "0">>}}

ResolveInit ==
    /\ req \in [tool : {"redmine", "backlog"},
                ticketIdOrUrl : IdentifierInputs \cup UrlInputs,
                url : ConfigUrls]
    /\ pc = "start"
    /\ rt = RetryIdle
    /\ net = [reads |-> 0, writes |-> 0, last |-> NoResponse, sent |-> <<>>]
    /\ ctx = [ticketId |-> Undefined]
    /\ out = [kind |-> "none"]

\* executeFetch up to the resolution of the identifier.
ExecuteFetchResolve ==
    /\ pc = "start"
    /\ LET r == parseTicketIdFromUrl(req.ticketIdOrUrl, req.url)
       IN  IF ~Truthy(req.ticketIdOrUrl)
           THEN /\ out' = Failed(PmToolError(<<"give a ticket number or a URL">>,
                                             "INVALID_ARGUMENT"))
                /\ pc' = "done"
                /\ UNCHANGED ctx
           ELSE IF r.ok
           THEN /\ ctx' = [ticketId |-> r.value]
                /\ pc' = "resolved"
                /\ UNCHANGED out
           ELSE /\ out' = Failed(r.error)
                /\ pc' = "done"
                /\ UNCHANGED ctx
    /\ UNCHANGED <<req, rt, net>>

\* executeFetch from plugin.fetch on, the credentials being configured: the
\* plugin rejects a configuration without URL, otherwise it sends its read
\* request for the resolved identifier.
ExecuteFetchRequest ==
    /\ pc = "resolved"
    /\ IF ~Truthy(req.url)
       THEN /\ out' = Failed(ValidationError(<<"URL is not configured">>))
            /\ UNCHANGED net
       ELSE /\ net' = [net EXCEPT !.reads = @ + 1, !.sent = ctx.ticketId]
            /\ out' = Succeeded(ctx.ticketId)
    /\ pc' = "done"
    /\ UNCHANGED <<req, rt, ctx>>

ResolveNext == ExecuteFetchResolve \/ ExecuteFetchRequest

SpecResolve == ResolveInit /\ [][ResolveNext]_vars

\* The input is a URL, the configured base URL is one, and they differ in
\* scheme, host or port.
UrlDiffersFromConfigured ==
    LET i == ParseUrl(StringOf(req.ticketIdOrUrl))
        c == ParseUrl(StringOf(req.url))
    IN  /\ i.ok
        /\ c.ok
        /\ (i.protocol # c.protocol \/ i.hostname # c.hostname \/ i.port # c.port)

\* C12: for every input URL whose scheme, host or port differs from the
\* configured base URL, resolving the identifier raises a ValidationError
\* whose message names both the configured URL and the input URL, and no
\* network request is issued for that operation.
C12_MismatchedUrlIsValidationError ==
    (pc # "start" /\ UrlDiffersFromConfigured) =>
        /\ pc = "done"
        /\ out.kind = "error"
        /\ out.error.name = "ValidationError"
        /\ Includes(out.error.message, StringOf(req.url))
        /\ Includes(out.error.message, StringOf(req.ticketIdOrUrl))
        /\ net.reads = 0

\* The input is a URL with the scheme, host and port of the configured base
\* URL.
UrlMatchesConfigured ==
    LET i == ParseUrl(StringOf(req.ticketIdOrUrl))
        c == ParseUrl(StringOf(req.url))
    IN  /\ i.ok
        /\ c.ok
        /\ i.protocol = c.protocol
        /\ i.hostname = c.hostname
        /\ i.port = c.port

\* The identifier the configured backend's own pattern finds in the input
\* URL, or null.
BackendIdentifier ==
    IF req.tool = "redmine"
    THEN RedmineParseUrl(StringOf(req.ticketIdOrUrl))
    ELSE BacklogParseUrl(StringOf(req.ticketIdOrUrl))

\* C13: for an input URL whose scheme, host and port match the configured
\* base URL, the resolver returns the identifier found by the configured
\* backend's own path pattern (the digits after /issues/ for Redmine, the
\* PROJECT-NUMBER key for Backlog); a URL that does not match that pattern
\* raises a ValidationError.
C13_IdentifierByBackendPattern ==
    (pc # "start" /\ UrlMatchesConfigured) =>
        IF BackendIdentifier # Null
        THEN /\ pc \in {"resolved", "done"}
             /\ out.kind # "error"
             /\ ctx.ticketId = BackendIdentifier
        ELSE /\ pc = "done"
             /\ out.kind = "error"
             /\ out.error.name = "ValidationError"

\* The resolver was handed an input that is no URL (executeFetch rejects
\* the empty input before it calls the resolver).
ResolvedNonUrl ==
    /\ pc # "start"
    /\ req.ticketIdOrUrl \in IdentifierInputs \ {Empty}

\* C14: for every input that is not a URL and for every configured base URL
\* (the absent one included), the identifier resolver returns the input
\* unchanged (a number as its decimal text) and raises no error; the only
\* error such an operation can end in is the plugin's rejection of the
\* absent URL, after the resolution.
C14_NonUrlInputReturnedUnchanged ==
    ResolvedNonUrl =>
        /\ parseTicketIdFromUrl(req.ticketIdOrUrl, req.url)
               = Returned(FALSE, StringOf(req.ticketIdOrUrl))
        /\ ctx.ticketId = StringOf(req.ticketIdOrUrl)
        /\ out.kind = "error" => (pc = "done" /\ ~Truthy(req.url))

C14_Witness ==
    /\ ResolvedNonUrl
    /\ pc = "done"
    /\ req.ticketIdOrUrl = <<"h", "t", "t", "p", ":", "/", "a">>
    /\ req.url = <<"h", "t", "t", "p", ":", "/", "/", "b">>
    /\ net.reads = 1
    /\ net.sent = req.ticketIdOrUrl

\* The requests the operation has issued so far.
RequestsIssued == net.reads + net.writes

\* The response is one the default policy retries after: a rate limit, a
\* server error, or no response at all (a network error or a timeout).
RetriedByDefault(response) ==
    \/ response.status = 429
    \/ (response.status >= 500 /\ response.status <= 599)
    \/ response.status = 0

\* C15: with the default policy the transport client (the Redmine plugin's
\* requests go through it) issues a further attempt only after a rate-limit
\* response (429), a 5xx response, a NetworkError or a timeout-coded
\* failure, and only while retries remain; after an AuthenticationError or
\* any other 4xx response it makes no further attempt.
C15_FurtherAttemptOnlyAfterTransientFailure ==
    [][(/\ req.backend = "redmine"
        /\ rt.calls >= 1
        /\ RequestsIssued' > RequestsIssued)
       => (/\ RetriedByDefault(net.last)
           /\ rt.calls <= ApiRequestMaxRetries
           /\ rt.lastError.name # "AuthenticationError")]_vars

C15_Witness ==
    /\ req.backend = "redmine"
    /\ pc = "done"
    /\ RequestsIssued = ApiRequestMaxRetries + 1
    /\ rt.calls = RequestsIssued
    /\ net.last.status = 429
    /\ out.kind = "error"

(***************************************************************************)
(* The transport client on its own (common/api.js: apiRequest)             *)
(***************************************************************************)
\* What fetch() may deliver to apiRequest: a response of any status, with a
\* JSON body, a body of another content type, or (status 2xx) a body
\* announced as JSON that does not parse; a 429 with or without the
\* Retry-After header; or no response at all.
TransportResponses ==
    {[status |-> st, body |-> b, retryAfter |-> Null] :
        st \in {200, 201, 204, 301, 304, 400, 401, 403, 404, 409, 422,
                500, 502, 503, 599},
        b \in {"json", "text"}}
        \cup {[status |-> st, body |-> "malformed", retryAfter |-> Null] :
                  st \in {200, 201}}
        \cup {[status |-> 429, body |-> "json", retryAfter |-> h] :
                  h \in {Null, <<"30">>}}
        \cup {[status |-> 0, body |-> b, retryAfter |-> Null] :
                  b \in {"fetch failed", "ETIMEDOUT"}}

TransportInit ==
    /\ req \in [method : {"GET", "PUT"}]
    /\ pc = "request"
    /\ rt = RetryEntry(RetryPolicy(ApiRequestMaxRetries, NoError, FALSE))
    /\ net = [reads |-> 0, writes |-> 0, last |-> NoResponse, sent |-> <<>>]
    /\ ctx = <<>>
    /\ out = [kind |-> "none"]

\* One pass of the operation apiRequest hands to retry, and what apiRequest
\* does with the outcome of retry: it returns the body, or throws the
\* normalized error.
ApiRequestAttempt ==
    /\ pc = "request"
    /\ \E response \in TransportResponses :
        LET result == apiRequestAttempt(response, <<response.body>>)
            policy == RetryPolicy(ApiRequestMaxRetries, result.error,
                                  isTransientError(result.error))
            r == RetryStep(rt, policy, result)
        IN  /\ rt' = r
            /\ net' = [net EXCEPT !.reads = @ + 1, !.last = response]
            /\ CASE r.state = "returned" ->
                      /\ pc' = "done"
                      /\ out' = Succeeded([parsed |-> result.json, body |-> result.value])
                 [] r.state = "thrown" ->
                      /\ pc' = "done"
                      /\ out' = Failed(normalizeError(r.lastError))
                 [] OTHER -> UNCHANGED <<pc, out>>
    /\ UNCHANGED <<req, ctx>>

SpecTransport == TransportInit /\ [][ApiRequestAttempt]_vars

\* apiRequest ended in the error of kind name that carries statusCode.
RaisedError(name, statusCode) ==
    /\ out.kind = "error"
    /\ out.error.name = name
    /\ out.error.statusCode = statusCode

\* C16: the transport client maps every response to exactly one outcome:
\* 401 or 403 raises AuthenticationError; 429 raises ApiError with status
\* 429 carrying the Retry-After hint; any status >= 500 raises ApiError with
\* that status; any other non-2xx status raises ApiError with that status; a
\* transport failure without a response raises NetworkError; a 2xx status
\* raises nothing and returns the body, parsed when the content type is
\* JSON, raw text otherwise.
C16_ResponseClassification ==
    pc = "done" =>
        LET response == net.last
        IN  CASE response.status \in {401, 403} ->
                    RaisedError("AuthenticationError", 0)
              [] response.status = 429 ->
                    /\ RaisedError("ApiError", 429)
                    /\ out.error.details = [retryAfter |-> response.retryAfter]
              [] response.status = 0 ->
                    RaisedError("NetworkError", 0)
              [] ResponseOk(response) ->
                    /\ out.kind = "ok"
                    /\ out.result.parsed = (response.body # "text")
              [] OTHER ->
                    RaisedError("ApiError", response.status)

\* The first invocation failed with an error that shouldRetry refuses.
FirstFailureRefused ==
    /\ Len(ctx) >= 1
    /\ ctx[1] \in TestErrors
    /\ ~req.policy.shouldRetry[ctx[1]]

\* C17: for any policy, when the first invocation of the operation fails and
\* shouldRetry returns false for that error, the retry executor invokes the
\* operation exactly once, does not sleep, and throws that same error.
C17_RefusedFirstFailureThrownAtOnce ==
    FirstFailureRefused =>
        /\ pc = "done"
        /\ rt.calls = 1
        /\ Len(ctx) = 1
        /\ rt.sleeps = <<>>
        /\ out = [kind |-> "error", error |-> ctx[1]]

\* The default number of retries was available and shouldRetry would have
\* accepted the other error.
C17_Witness ==
    /\ FirstFailureRefused
    /\ pc = "done"
    /\ req.policy.maxRetries = DefaultMaxRetries
    /\ \E e \in TestErrors : req.policy.shouldRetry[e]
    /\ out.error = ctx[1]

\* The retry limits the backends document: 3 retries of the read of fetch,
\* 2 retries of the write of update.
DocumentedReadRetries == 3
DocumentedWriteRetries == 2

\* C18: in both backends, under a persistent transient failure the read
\* request of fetch is retried at most 3 times and the write request of
\* update at most 2 times before the error is surfaced: the update write
\* uses a stricter retry limit than the fetch read.
C18_WriteRetriedLessThanRead ==
    /\ req.op = "fetch" => net.reads <= 1 + DocumentedReadRetries
    /\ req.op = "update" => net.writes <= 1 + DocumentedWriteRetries

\* The update request, merged by the backend from the overrides, the front
\* matter and the body (for Backlog: against the issue the service holds),
\* contains no field to update.
NothingToUpdate ==
    /\ req.op = "update"
    /\ IF req.backend = "redmine"
       THEN DOMAIN buildIssueUpdateData(req.updateData) = {}
       ELSE DOMAIN buildUpdatePayload(req.updateData, req.remote) = {}

\* C19: for every backend, an update whose merged request (overrides, front
\* matter, body) contains no field to update raises a ValidationError and
\* issues no network write request (unless a request of the operation has
\* failed before).
C19_NothingToUpdateIsValidationError ==
    (pc = "done" /\ NothingToUpdate /\ rt.state # "thrown") =>
        /\ out.kind = "error"
        /\ out.error.name = "ValidationError"
        /\ net.writes = 0

\* The configuration lacks the base URL, or the credential the backend
\* asks for: the API key, or for Redmine a user name with its password.
LacksUrlOrCredential ==
    \/ ~Truthy(req.config.url)
    \/ /\ ~Truthy(req.config.api_key)
       /\ \/ req.backend = "backlog"
          \/ ~Truthy(req.config.username)
          \/ ~Truthy(req.config.password)

MaxLocalBodyLen == 5

LocalBodyInit ==
    /\ req \in [kind : {"local"}, text : Strings(BodyChars, MaxLocalBodyLen)]
    /\ pc = "file"
    /\ rt = <<>>
    /\ net = <<>>
    /\ ctx = <<>>
    /\ out = [kind |-> "none"]

\* executeUpdate normalises and trims the text; buildUpdatePayload takes
\* the subject and the description from it, each with its own extractor.
SplitLocalBody ==
    /\ pc = "file"
    /\ ctx' = bodyContent(req.text)
    /\ out' = [kind |-> "split",
               title |-> extractSubjectFromMarkdown(ctx'),
               description |-> extractDescriptionFromMarkdown(ctx')]
    /\ pc' = "split"
    /\ UNCHANGED <<req, rt, net>>

SpecLocalBody == LocalBodyInit /\ [][SplitLocalBody]_vars

\* The number of lines the heading at the head of body takes: 2 for a text
\* line underlined by a line of "=", 1 for a line "# text", 0 when the body
\* does not begin with a heading.
HeadingLines(body) ==
    LET l1 == RunNotIn(body, 1, {NL})
        l2 == RunNotIn(body, l1 + 2, {NL})
        w  == RunIn(body, 2, {" "})
    IN  IF /\ l1 >= 1
           /\ l1 + 2 <= Len(body)
           /\ l2 >= 1
           /\ RunIn(body, l1 + 2, {"="}) = l2
        THEN 2
        ELSE IF /\ l1 >= 3
                /\ body[1] = "#"
                /\ w >= 1
                /\ w + 1 < l1
        THEN 1
        ELSE 0

\* The text of that heading.
HeadingText(body) ==
    LET l1 == RunNotIn(body, 1, {NL})
    IN  IF HeadingLines(body) = 2 THEN Trim(SubSeq(body, 1, l1))
        ELSE Trim(SubSeq(body, 2, l1))

\* The text after that heading.
TextAfterHeading(body) ==
    LET l1 == RunNotIn(body, 1, {NL})
        l2 == RunNotIn(body, l1 + 2, {NL})
    IN  IF HeadingLines(body) = 2
        THEN Trim(SubSeq(body, l1 + l2 + 2, Len(body)))
        ELSE Trim(SubSeq(body, l1 + 1, Len(body)))

\* C21: when an update splits the local body, the title candidate and the
\* description candidate come from one and the same split: a title is
\* proposed only when the body begins with a heading, the proposed title is
\* that first heading and the description is exactly the text after it;
\* when the body does not begin with a heading the whole body is the
\* description and no title is proposed.
C21_TitleAndDescriptionFromOneSplit ==
    pc = "split" =>
        IF HeadingLines(ctx) > 0
        THEN /\ out.title = HeadingText(ctx)
             /\ out.description = TextAfterHeading(ctx)
        ELSE /\ out.title = <<>>
             /\ out.description = ctx

\* A fetch has returned a formatted ticket.
FetchReturnedTicket ==
    /\ pc = "done"
    /\ req.op = "fetch"
    /\ out.kind = "ok"

\* C22: for every backend and every remote issue, the metadata mapping
\* returned by fetch never contains the ticket's title/summary: the title
\* is returned only as the separate title value that is rendered as the
\* heading.
C22_TitleNeverInMetadata ==
    FetchReturnedTicket =>
        /\ DOMAIN out.result.meta \cap {"title", "subject", "summary"} = {}
        /\ "title" \in DOMAIN out.result

\* C23: for every backend and every remote description, the body text
\* returned by fetch contains no carriage-return character: every CRLF and
\* every lone CR of the remote text is converted to LF.
C23_FetchedBodyHasNoCarriageReturn ==
    FetchReturnedTicket =>
        /\ \A i \in 1..Len(out.result.body) : out.result.body[i] # CR
        /\ Truthy(Get(req.remote, "description")) =>
               out.result.body = NormalizeNewlines(req.remote["description"])

(***************************************************************************)
(* validate(config) of the two plugins                                     *)
(***************************************************************************)
\* A check that takes a user name alone for Basic authentication.
RedmineValidateUserNameOnly(config) ==
    LET hasApiKey == Truthy(config.api_key)
        hasBasicAuth == Truthy(config.username)
        errors == (IF ~Truthy(config.url) THEN <<"url">> ELSE <<>>)
                  \o (IF ~hasApiKey /\ ~hasBasicAuth THEN <<"credentials">> ELSE <<>>)
    IN  [valid |-> Len(errors) = 0, errors |-> errors]

\* validate of the Redmine plugin: the errors it collects, in its order.
RedmineValidate(config) ==
    LET hasApiKey == Truthy(config.api_key)
        hasBasicAuth == Truthy(config.username) /\ Truthy(config.password)
        errors ==
            (IF ~Truthy(config.url) THEN <<"url">> ELSE <<>>)
            \o (IF ~hasApiKey /\ ~hasBasicAuth THEN <<"credentials">> ELSE <<>>)
            \o (IF ~hasApiKey /\ Truthy(config.username) /\ ~Truthy(config.password)
                THEN <<"password">> ELSE <<>>)
            \o (IF ~hasApiKey /\ ~Truthy(config.username) /\ Truthy(config.password)
                THEN <<"username">> ELSE <<>>)
    IN  [valid |-> Len(errors) = 0, errors |-> errors]

\* validate of the Backlog plugin.
BacklogValidate(config) ==
    LET errors == (IF ~Truthy(config.url) THEN <<"url">> ELSE <<>>)
                  \o (IF ~Truthy(config.api_key) THEN <<"api_key">> ELSE <<>>)
    IN  [valid |-> Len(errors) = 0, errors |-> errors]

\* Every configuration whose four keys are absent, empty or set.
ValidateInit ==
    /\ req \in [backend : {"redmine", "backlog"},
                config : [{"url", "api_key", "username", "password"} ->
                             {Undefined, Empty, <<"x">>}]]
    /\ pc = "start"
    /\ rt = RetryIdle
    /\ net = [reads |-> 0, writes |-> 0, last |-> NoResponse, sent |-> <<>>]
    /\ ctx = <<>>
    /\ out = [kind |-> "none"]

ValidateRedmine ==
    /\ pc = "start" /\ req.backend = "redmine"
    /\ out' = Succeeded(RedmineValidate(req.config))
    /\ pc' = "done"
    /\ UNCHANGED <<req, rt, net, ctx>>

ValidateBacklog ==
    /\ pc = "start" /\ req.backend = "backlog"
    /\ out' = Succeeded(BacklogValidate(req.config))
    /\ pc' = "done"
    /\ UNCHANGED <<req, rt, net, ctx>>

ValidateNext == ValidateRedmine \/ ValidateBacklog

SpecValidate == ValidateInit /\ [][ValidateNext]_vars

\* The user name and the password are both present.
HasPasswordPair == Truthy(req.config.username) /\ Truthy(req.config.password)

\* C24 (as stated): validate issues no network request and returns valid =
\* true if and only if the base URL is present and a complete credential is
\* present, the single API token or both user name and password, in either
\* backend; a partial pair never counts, and valid = false always comes
\* with at least one error message.
C24_ValidIffUrlAndTokenOrPair ==
    pc = "done" =>
        /\ net.reads = 0 /\ net.writes = 0
        /\ out.result.valid <=>
               (Truthy(req.config.url) /\ (Truthy(req.config.api_key) \/ HasPasswordPair))
        /\ ~out.result.valid => Len(out.result.errors) >= 1

\* C24 (amended): as above, the complete credential being the one the
\* backend accepts: for Redmine the API key or both user name and password,
\* for Backlog the API key only.
C24_ValidIffUrlAndAcceptedCredential ==
    pc = "done" =>
        /\ net.reads = 0 /\ net.writes = 0
        /\ out.result.valid <=>
               /\ Truthy(req.config.url)
               /\ \/ Truthy(req.config.api_key)
                  \/ (req.backend = "redmine" /\ HasPasswordPair)
        /\ ~out.result.valid => Len(out.result.errors) >= 1

\* A Redmine configuration with URL and user name but neither password nor
\* API key has been found invalid.
C24_Witness ==
    /\ pc = "done"
    /\ req.backend = "redmine"
    /\ Truthy(req.config.url)
    /\ Truthy(req.config.username)
    /\ req.config.password = Empty
    /\ ~Truthy(req.config.api_key)
    /\ ~out.result.valid
    /\ Len(out.result.errors) = 2

(***************************************************************************)
(* Two retry executions interleaved in one process                         *)
(***************************************************************************)
\* One frame of local variables used by every execution, as module-level
\* variables would be.
RetryFrameShared(frames, i) == frames[1]

\* The local variables of execution i: attempt, delay and lastError are
\* declared inside retry(), so every call has its own.
RetryFrame(frames, i) == frames[i]

\* Two calls of retry, each with its own options, both entered.
ConcurrentInit ==
    /\ req \in [kind : {"concurrent"},
                policy : [1..2 ->
                    {[maxRetries |-> m, initialDelay |-> d[1], maxDelay |-> d[2],
                      backoffMultiplier |-> DefaultBackoffMultiplier, shouldRetry |-> f] :
                        m \in 1..2, d \in {<<1, 5>>, <<3, 4>>},
                        f \in {[e \in TestErrors |-> TRUE],
                               [e \in TestErrors |-> e.message = <<"E1">>]}}]]
    /\ pc = [i \in 1..2 |-> "retry"]
    /\ rt = [i \in 1..2 |-> RetryEntry(req.policy[i])]
    /\ net = <<>>
    /\ ctx = [i \in 1..2 |-> <<>>]
    /\ out = [i \in 1..2 |-> [kind |-> "none"]]

\* One iteration of the loop of execution i (the process switches between
\* the executions at their awaits): its operation returns, or throws e.
ConcurrentIteration ==
    \E i \in 1..2, e \in TestErrors \cup {NoError} :
        /\ pc[i] = "retry"
        /\ LET r == IF e = NoError THEN RetryReturn(RetryFrame(rt, i))
                    ELSE RetryCatch(RetryFrame(rt, i), req.policy[i], e)
           IN  /\ rt' = [rt EXCEPT ![i] = r]
               /\ ctx' = [ctx EXCEPT ![i] = Append(@, e)]
               /\ pc' = [pc EXCEPT ![i] = IF r.state = "running" THEN "retry" ELSE "done"]
               /\ out' = [out EXCEPT ![i] =
                             CASE r.state = "returned" -> [kind |-> "ok"]
                               [] r.state = "thrown" -> [kind |-> "error", error |-> r.lastError]
                               [] OTHER -> @]
        /\ UNCHANGED <<req, net>>

SpecConcurrent == ConcurrentInit /\ [][ConcurrentIteration]_vars

\* The execution of retry that runs alone with policy and whose operation
\* ends in outcomes, one after the other.
RECURSIVE RetryAlone(_, _)
RetryAlone(policy, outcomes) ==
    IF outcomes = <<>> THEN RetryEntry(policy)
    ELSE LET before == RetryAlone(policy, SubSeq(outcomes, 1, Len(outcomes) - 1))
             e == outcomes[Len(outcomes)]
         IN  IF e = NoError THEN RetryReturn(before) ELSE RetryCatch(before, policy, e)

\* C25: when two retry executions run interleaved in one process, the
\* number of attempts and the sequence of delays of each execution depend
\* only on its own policy and on the outcomes of its own operation: each
\* stands where it would stand running alone, no attempt counter, delay or
\* last error being shared.
C25_ExecutionsShareNoRetryState ==
    \A i \in 1..2 :
        /\ rt[i] = RetryAlone(req.policy[i], ctx[i])
        /\ rt[i].calls = Len(ctx[i])

\* Both executions are under way, each having failed once and sleeping for
\* its own delay.
C25_Witness ==
    /\ \A i \in 1..2 : pc[i] = "retry" /\ rt[i].calls = 1
    /\ rt[1].sleeps = <<1>>
    /\ rt[2].sleeps = <<3>>

(***************************************************************************)
(* C26: the read that precedes the write of a Backlog update               *)
(***************************************************************************)
BacklogUpdate == req.backend = "backlog" /\ req.op = "update"

\* The read request that has just been answered completed successfully.
ReadCompleted == ResponseOk(net'.last) /\ net'.last.body = "json"

\* C26: within one Backlog update a write request is issued only once a read
\* of the same issue has completed successfully, what is written is the
\* payload computed from the result of that read, no read request is issued
\* from that read on, and a read that fails, after its retries, ends the
\* update with no write request issued.
C26_WriteOnlyAfterSuccessfulRead ==
    [][BacklogUpdate =>
        /\ net'.writes > net.writes =>
              /\ pc = "write"
              /\ net.reads >= 1
              /\ net'.reads = net.reads
              /\ net'.sent = FormData(buildUpdatePayload(req.updateData, req.remote))
        /\ (pc = "read" /\ pc' = "write") => ReadCompleted
        /\ net'.reads > net.reads => (pc = "read" /\ net.writes = 0)
        /\ (pc = "read" /\ pc' = "done" /\ out'.kind = "error") =>
              (~ReadCompleted /\ net'.writes = 0)]_vars

C26_Witness ==
    /\ BacklogUpdate
    /\ pc = "done"
    /\ out.kind = "ok"
    /\ net.reads = 2
    /\ net.writes = 2

(***************************************************************************)
(* C27: the delays slept between attempts                                  *)
(***************************************************************************)
RECURSIVE Power(_, _)
Power(b, n) == IF n = 0 THEN 1 ELSE b * Power(b, n - 1)

\* The capped exponential delay of the k-th sleep under a policy.
CappedBackoff(policy, k) ==
    Min(policy.initialDelay * Power(policy.backoffMultiplier, k - 1),
        policy.maxDelay)

\* C27: for every policy, every sleep between two attempts lasts at most
\* maxDelay, and the k-th sleep lasts
\* min(initialDelay * backoffMultiplier^(k-1), maxDelay).
C27_SleepsFollowCappedBackoff ==
    \A k \in 1..Len(rt.sleeps) :
        /\ rt.sleeps[k] <= req.policy.maxDelay
        /\ rt.sleeps[k] = CappedBackoff(req.policy, k)

(***************************************************************************)
(* C28: the retry executor terminates, and how                             *)
(***************************************************************************)
\* ctx lists the outcome of every invocation in order.
ReturnedFirstSuccess ==
    /\ rt.state = "returned"
    /\ out.kind = "ok"
    /\ rt.calls = Len(ctx)
    /\ ctx[Len(ctx)] = NoError
    /\ \A i \in 1..(Len(ctx) - 1) : ctx[i] # NoError

ThrownWhenNothingRemains ==
    /\ rt.state = "thrown"
    /\ out.kind = "error"
    /\ rt.calls = Len(ctx)
    /\ \A i \in 1..Len(ctx) : ctx[i] # NoError
    /\ out.error = ctx[Len(ctx)]
    /\ \/ ~req.policy.shouldRetry[out.error]
       \/ rt.calls = req.policy.maxRetries + 1

\* C28: for every policy and every operation whose invocations terminate the
\* executor terminates; it returns at the first successful invocation with no
\* invocation after it, or throws after an error shouldRetry refuses or once
\* the attempt limit is reached; a failure shouldRetry accepts is thrown only
\* when no attempt remains, and while the executor runs every invocation so
\* far has failed with an accepted error and attempts remain.
C28_TerminatesWithFirstSuccessOrFinalFailure ==
    /\ <>(pc = "done")
    /\ [](pc = "done" => (ReturnedFirstSuccess \/ ThrownWhenNothingRemains))
    /\ [](pc # "done" =>
            /\ rt.state = "running"
            /\ out.kind = "none"
            /\ Len(ctx) <= req.policy.maxRetries
            /\ \A i \in 1..Len(ctx) :
                  ctx[i] # NoError /\ req.policy.shouldRetry[ctx[i]])
    /\ [][pc = "done" => rt'.calls = rt.calls]_vars

C28_Witness ==
    /\ pc = "done"
    /\ out.kind = "ok"
    /\ rt.calls = 3
    /\ req.policy.maxRetries = 3

(***************************************************************************)
(* Logger (common/logger.js) and what fetch and update write to the log    *)
(***************************************************************************)
LOG_LEVELS == [DEBUG |-> 0, INFO |-> 1, WARN |-> 2, ERROR |-> 3]

\* formatMessage: the level, the message and the data of one line.  The
\* timestamp in front of the line is the clock's and is left out.
formatMessage(level, message, data) ==
    [level |-> level, message |-> message, data |-> data]

\* debug, info, warn and error: the line is written when the current level
\* does not exceed the level of the call.
Log(lines, current, level, message, data) ==
    IF LOG_LEVELS[current] <= LOG_LEVELS[level]
    THEN Append(lines, formatMessage(level, message, data))
    ELSE lines

\* console.log, written whatever the current level.
ConsoleLog(lines, message, data) ==
    Append(lines, [level |-> "LOG", message |-> message, data |-> data])

\* The serialisation of a query value by URLSearchParams: a space becomes
\* "+", "+" itself is percent-encoded, letters and digits are kept.
RECURSIVE FormUrlEncode(_)
FormUrlEncode(text) ==
    IF text = <<>> THEN <<>>
    ELSE (CASE Head(text) = " " -> <<"+">>
            [] Head(text) = "+" -> <<"%", "2", "B">>
            [] OTHER -> <<Head(text)>>) \o FormUrlEncode(Tail(text))

\* The URL of callBacklogApi, callBacklogGetApi and callBacklogUpdateApi:
\* the configured URL without a trailing slash, the path of the issue and
\* the API key as the query.
BacklogIssueUrl(config, issueKey) ==
    LET u == config.url
        baseUrl == IF Len(u) > 0 /\ u[Len(u)] = "/" THEN SubSeq(u, 1, Len(u) - 1)
                   ELSE u
    IN  baseUrl \o <<"/api/v2/issues/">> \o issueKey \o <<"?apiKey=">>
            \o FormUrlEncode(config.api_key)

\* The URL of fetchTicket and updateTicket.
RedmineIssueUrl(config, ticketId) ==
    config.url \o <<"/issues/">> \o ticketId \o <<".json">>

\* The lines retry writes around one invocation: the attempt before it
\* and, r being the frame before the iteration, the refusal or the
\* warning after a failure that is not the last attempt's.
RetryAttemptLine(lines, current, r, policy) ==
    Log(lines, current, "DEBUG",
        <<"attempt ", ToString(r.attempt + 1), "/", ToString(policy.maxRetries + 1)>>,
        <<>>)

RetryCatchLines(lines, current, r, policy, result) ==
    CASE result.ok \/ r.attempt = policy.maxRetries -> lines
      [] ~policy.shouldRetry[result.error] ->
            Log(lines, current, "DEBUG", <<"not a retryable error, giving up">>,
                [error |-> result.error.message])
      [] OTHER ->
            Log(lines, current, "WARN",
                <<"failed (", ToString(r.attempt + 1), "/",
                  ToString(policy.maxRetries + 1), "): ">> \o result.error.message,
                [nextRetryIn |-> r.delay])

\* The line written when a response has arrived.
ResponseLine(lines, current, response, asData) ==
    IF response.status = 0 THEN lines
    ELSE IF asData
         THEN Log(lines, current, "DEBUG", <<"API response received">>,
                  [status |-> response.status, statusText |-> <<"statusText">>])
         ELSE Log(lines, current, "DEBUG",
                  <<"API Response: ", ToString(response.status), " statusText">>, <<>>)

\* Redmine: the lines of fetch and update of the plugin and of fetchTicket
\* and updateTicket up to the first request (apiRequest's first line
\* included); r is the request.
RedmineEntryLines(lines, current, r, config) ==
    LET authType == IF Truthy(config.api_key) THEN <<"api_key">> ELSE <<"basic">>
        url == RedmineIssueUrl(config, r.ticketId)
        issueData == buildIssueUpdateData(r.updateData)
        o == r.updateData.options
        l1 == Log(lines, current, "DEBUG", <<"Redmine plugin: ", r.op>>,
                  [ticketId |-> r.ticketId])
        fetching == Log(Log(l1, current, "DEBUG", <<"Redmine ticket fetch">>,
                            [ticketId |-> r.ticketId, url |-> config.url,
                             authType |-> authType]),
                        current, "DEBUG", <<"API Request: ", "GET", " ">> \o url, <<>>)
        l2 == Log(l1, current, "DEBUG", <<"Redmine ticket update">>,
                  [ticketId |-> r.ticketId, updateData |-> r.updateData,
                   authType |-> authType])
        l3 == ConsoleLog(ConsoleLog(l2, <<"URL:">>, url),
                         <<"Payload:">>, JsonStringify(issueData))
    IN  CASE RedmineConfigError(config) # NoError -> l1
          [] r.op = "fetch" -> fetching
          [] DOMAIN issueData = {} -> l2
          [] Truthy(Get(o, "dryRun")) \/ Truthy(Get(o, "dry-run")) ->
                Log(l3, current, "INFO", <<"[DRY RUN] no update is made">>, <<>>)
          [] OTHER -> Log(l3, current, "DEBUG", <<"API Request: ", "PUT", " ">> \o url, <<>>)

\* Redmine: the lines of one iteration of retry inside apiRequest and, when
\* the loop is left, of apiRequest and of the plugin after it; r is the
\* retry frame before the iteration, after the frame after it.
RedmineAttemptLines(lines, current, q, config, r, after, policy, response, result) ==
    LET l1 == RetryAttemptLine(lines, current, r, policy)
        l2 == ResponseLine(l1, current, response, FALSE)
        l3 == RetryCatchLines(l2, current, r, policy, result)
    IN  CASE after.state = "thrown" ->
                Log(l3, current, "ERROR",
                    <<"API Request Failed: ">> \o RedmineIssueUrl(config, q.ticketId),
                    [message |-> after.lastError.message])
          [] after.state = "returned" ->
                Log(l3, current, "INFO",
                    <<"ticket #">> \o q.ticketId
                        \o (IF q.op = "fetch" THEN <<" fetched">> ELSE <<" updated">>),
                    <<>>)
          [] OTHER -> l3

\* Backlog: the lines of the plugin and of fetchIssue and updateIssue before
\* the first request.
BacklogEntryLines(lines, current, q, config) ==
    LET l1 == Log(lines, current, "DEBUG", <<"Backlog plugin: ", q.op>>,
                  [issueKey |-> q.ticketId])
    IN  CASE BacklogConfigError(config) # NoError -> l1
          [] q.op = "fetch" ->
                Log(Log(l1, current, "DEBUG", <<"Backlog issue fetch">>,
                        [issueKey |-> q.ticketId, url |-> config.url]),
                    current, "INFO", <<"fetching Backlog issue: ">> \o q.ticketId, <<>>)
          [] OTHER ->
                Log(l1, current, "INFO", <<"updating Backlog issue: ">> \o q.ticketId, <<>>)

\* Backlog: the lines of one iteration of retry around callBacklogApi,
\* callBacklogGetApi (phase "request" and "read") or callBacklogUpdateApi
\* (phase "write"), and of fetchIssue or updateIssue when the loop is left
\* by a return.
BacklogAttemptLines(lines, current, q, config, phase, payload, r, after, policy, response, result) ==
    LET url == BacklogIssueUrl(config, q.ticketId)
        l1 == RetryAttemptLine(lines, current, r, policy)
        l2 == CASE phase = "request" ->
                      Log(l1, current, "DEBUG", <<"API request start">>, [url |-> url])
                [] phase = "read" ->
                      Log(l1, current, "DEBUG", <<"API request start (GET)">>, [url |-> url])
                [] OTHER ->
                      Log(l1, current, "DEBUG", <<"API request start (PATCH)">>,
                          [url |-> url, payload |-> payload])
        l3 == ResponseLine(l2, current, response, TRUE)
        l4 == RetryCatchLines(l3, current, r, policy, result)
        updatePayload == buildUpdatePayload(q.updateData, result.value)
        warned == IF StatusWarning(q.updateData, result.value)
                  THEN Log(l4, current, "WARN", <<"updating the status is not supported">>,
                           [current |-> Get(result.value, "status.name"),
                            requested |-> Get(q.updateData.frontmatter, "status")])
                  ELSE l4
    IN  CASE after.state # "returned" -> l4
          [] phase = "request" ->
                Log(l4, current, "INFO", <<"issue fetched">>,
                    [key |-> Get(result.value, "issueKey"),
                     summary |-> Get(result.value, "summary")])
          [] phase = "read" ->
                IF DOMAIN updatePayload = {}
                THEN Log(warned, current, "INFO", <<"nothing to update">>, <<>>)
                ELSE warned
          [] OTHER ->
                Log(l4, current, "INFO", <<"issue updated">>,
                    [key |-> Get(result.value, "issueKey"), updated |-> DOMAIN payload])

(***************************************************************************)
(* Two runs of one fetch or update that differ in the credential only      *)
(***************************************************************************)
\* Two credentials; the second pair differs in a character the query
\* encodes.
CredentialPairs ==
    {<<<<"s", "1">>, <<"s", "2">>>>, <<<<"s", "1">>, <<"s", " ">>>>}

\* The two configurations of a pair of runs: the API key, or for Redmine
\* the password of basic authentication, is what differs.
LogConfigs(backend) ==
    {[i \in 1..2 |-> [url |-> <<"URL">>, api_key |-> s[i], username |-> Undefined,
                      password |-> Undefined]] : s \in CredentialPairs}
        \cup (IF backend = "redmine"
              THEN {[i \in 1..2 |-> [url |-> <<"URL">>, api_key |-> Undefined,
                                     username |-> <<"USER">>, password |-> s[i]]] :
                        s \in CredentialPairs}
              ELSE {})

\* The requests of the two runs: the fetches and the updates without an
\* update option of the model, for an issue with a description, under a
\* complete configuration whose credential the runs replace.
LogRequests ==
    {q \in Requests :
        /\ q.config = [url |-> <<"URL">>, api_key |-> <<"KEY">>,
                       username |-> Undefined, password |-> Undefined]
        /\ Truthy(q.remote["description"])
        /\ DOMAIN q.updateData.options \subseteq {"dry-run"}}

\* The answers of the server in the two runs: success, a refused
\* credential, a server error and no answer.
LogResponses ==
    {r \in Responses : r.status \in {0, 200, 401, 500}
                          /\ r.body \in {"json", "fetch failed"}}

LogInit ==
    /\ req \in {[kind |-> "log", q |-> q, current |-> c, configs |-> cs] :
                    q \in LogRequests, c \in DOMAIN LOG_LEVELS,
                    cs \in LogConfigs("redmine") \cup LogConfigs("backlog")}
    /\ req.configs \in LogConfigs(req.q.backend)
    /\ pc = "start"
    /\ rt = RetryIdle
    /\ net = [reads |-> 0, writes |-> 0, last |-> NoResponse, sent |-> <<>>]
    /\ ctx = [payload |-> <<>>, lines |-> [i \in 1..2 |-> <<>>]]
    /\ out = [kind |-> "none"]

\* fetch or update of the plugin up to its first request.
LogStart ==
    /\ pc = "start"
    /\ LET q == req.q
           issueData == buildIssueUpdateData(q.updateData)
           o == q.updateData.options
           ends == /\ q.backend = "redmine" /\ q.op = "update"
                   /\ \/ DOMAIN issueData = {}
                      \/ Truthy(Get(o, "dryRun")) \/ Truthy(Get(o, "dry-run"))
       IN  /\ ctx' = [payload |-> IF q.backend = "redmine" /\ q.op = "update"
                                  THEN issueData ELSE <<>>,
                      lines |-> [i \in 1..2 |->
                          IF q.backend = "redmine"
                          THEN RedmineEntryLines(ctx.lines[i], req.current, q, req.configs[i])
                          ELSE BacklogEntryLines(ctx.lines[i], req.current, q, req.configs[i])]]
           /\ pc' = CASE ends -> "done"
                      [] q.backend = "backlog" /\ q.op = "update" -> "read"
                      [] OTHER -> "request"
           /\ rt' = CASE ends -> rt
                      [] q.backend = "redmine" ->
                            RetryEntry(RetryPolicy(ApiRequestMaxRetries, NoError, FALSE))
                      [] q.op = "fetch" ->
                            RetryEntry(RetryPolicy(BacklogFetchMaxRetries, NoError, FALSE))
                      [] OTHER ->
                            RetryEntry(RetryPolicy(BacklogReadMaxRetries, NoError, FALSE))
    /\ UNCHANGED <<req, net, out>>

\* One request of fetchTicket or updateTicket answered.
LogRedmineAttempt ==
    /\ pc = "request" /\ req.q.backend = "redmine"
    /\ \E response \in LogResponses :
        LET result == apiRequestAttempt(response, [issue |-> req.q.remote])
            policy == RetryPolicy(ApiRequestMaxRetries, result.error,
                                  isTransientError(result.error))
            r == RetryStep(rt, policy, result)
        IN  /\ rt' = r
            /\ net' = [net EXCEPT !.last = response]
            /\ ctx' = [ctx EXCEPT !.lines = [i \in 1..2 |->
                          RedmineAttemptLines(ctx.lines[i], req.current, req.q,
                                              req.configs[i], rt, r, policy,
                                              response, result)]]
            /\ pc' = IF r.state = "running" THEN pc ELSE "done"
    /\ UNCHANGED <<req, out>>

\* One request of fetchIssue or updateIssue answered.
LogBacklogAttempt ==
    /\ pc \in {"request", "read", "write"} /\ req.q.backend = "backlog"
    /\ \E response \in LogResponses :
        LET result == IF pc = "request" THEN callBacklogApi(response, req.q.remote)
                      ELSE callBacklogGetApi(response, req.q.remote)
            policy == CASE pc = "request" ->
                              RetryPolicy(BacklogFetchMaxRetries, result.error,
                                          BacklogShouldRetry(result.error))
                        [] pc = "read" ->
                              RetryPolicy(BacklogReadMaxRetries, result.error,
                                          BacklogShouldRetry(result.error))
                        [] OTHER ->
                              RetryPolicy(BacklogWriteMaxRetries, result.error,
                                          BacklogShouldRetryWrite(result.error))
            r == RetryStep(rt, policy, result)
            updatePayload == buildUpdatePayload(req.q.updateData, result.value)
            writes == pc = "read" /\ r.state = "returned" /\ DOMAIN updatePayload # {}
        IN  /\ net' = [net EXCEPT !.last = response]
            /\ ctx' = [payload |-> IF writes THEN updatePayload ELSE ctx.payload,
                       lines |-> [i \in 1..2 |->
                          BacklogAttemptLines(ctx.lines[i], req.current, req.q,
                                              req.configs[i], pc, ctx.payload, rt, r,
                                              policy, response, result)]]
            /\ rt' = IF writes
                     THEN RetryEntry(RetryPolicy(BacklogWriteMaxRetries, NoError, FALSE))
                     ELSE r
            /\ pc' = CASE writes -> "write"
                       [] r.state = "running" -> pc
                       [] OTHER -> "done"
    /\ UNCHANGED <<req, out>>

LogNext == LogStart \/ LogRedmineAttempt \/ LogBacklogAttempt

SpecLog == LogInit /\ [][LogNext]_vars

\* C29: no log message written during fetch or update of either backend, at
\* any log level, contains the configured credential: two runs that differ
\* in the credential only have written the same lines.
C29_LogIndependentOfCredential ==
    ctx.lines[1] = ctx.lines[2]

(***************************************************************************)
(* C30: the pre-flight check of fetch and update against validate          *)
(***************************************************************************)
\* validate of the request's backend, applied to its configuration.
ValidateOfBackend ==
    IF req.backend = "redmine" THEN RedmineValidate(req.config)
    ELSE BacklogValidate(req.config)

\* The operation ended in a ValidationError about the configuration before
\* any request was issued.
RejectedConfiguration ==
    /\ pc = "done"
    /\ out.kind = "error"
    /\ out.error.name = "ValidationError"
    /\ out.error = (IF req.backend = "redmine" THEN RedmineConfigError(req.config)
                    ELSE BacklogConfigError(req.config))
    /\ net.reads = 0
    /\ net.writes = 0
    /\ rt = RetryIdle

====
